---- MODULE Spec2Model ----
(***************************************************************************)
(* Verifiable secret sharing (share/vss/vss.go): a Dealer, the Verifiers   *)
(* and the aggregator both embed, as a state machine; and the Promise of   *)
(* poly/promise/promise.go with the PromiseState that collects its         *)
(* signatures and blame proofs, and the binary encodings of the Promise,   *)
(* PromiseSignature and BlameProof.                                        *)
(*                                                                         *)
(* The group is the additive group Z_Q: a Point is written as its discrete *)
(* logarithm to the base B (B = 1), a Scalar is an element of Z_Q.  A Go    *)
(* slice is a function on 0..len-1, a nil pointer is the empty sequence    *)
(* and a non-nil pointer a one-element sequence.  A hash is written as the *)
(* byte string it is applied to (collision resistance), with the fields     *)
(* concatenated exactly as the code writes them.                           *)
(***************************************************************************)
EXTENDS Integers, Sequences, FiniteSets, TLC

\* ------------------------------------------------------------ bounds
NumVerifiers == 3
NumReceivers == 1
MaxCorrupt == 1
MaxTamper == 1
NumInsurers == 3
NumPeers == 3

\* ------------------------------------------------------------ the suite
Q == 7
Base == 1

StatusComplaint == 0
StatusApproval == 1
statusJustified == 2

None == <<>>
Some(x) == <<x>>

Indices == 0 .. (NumVerifiers - 1)

\* uint32(x) of a Go int x: the value itself for 0 <= x < 2^32.  Every integer
\* converted here is a threshold or an index of 0 .. NumVerifiers + 1
uint32(x) == IF x >= 0 THEN x ELSE x + 2147483647

\* Go's len() of a slice
SliceLen(s) == Cardinality(DOMAIN s)

\* a slice written to a buffer element by element
RECURSIVE MarshalFrom(_, _)
MarshalFrom(s, k) ==
    IF k >= SliceLen(s) THEN <<>> ELSE <<s[k]>> \o MarshalFrom(s, k + 1)
MarshalSlice(s) == MarshalFrom(s, 0)

PointMul(p, s) == (p * s) % Q
PointAdd(p, q) == (p + q) % Q

\* ------------------------------------------------------------ keys, signatures
DealerLong == 1
VerifierLong(i) == i + 2
OutsiderLong == NumVerifiers + 2

Pub(long) == PointMul(Base, long)

Verifiers == [i \in Indices |-> Pub(VerifierLong(i))]
\* a verifiers vector that differs from Verifiers in its last entry
OtherVerifiers ==
    [i \in Indices |-> IF i = NumVerifiers - 1 THEN Pub(OutsiderLong) ELSE Verifiers[i]]

Schnorr(long, msg) == [signer |-> Pub(long), msg |-> msg]
VerifySchnorr(pub, msg, sig) ==
    /\ sig.signer = pub
    /\ sig.msg.tag = msg.tag
    /\ sig.msg.body = msg.body
\* a byte string that is no signature of anything
BadSig == [signer |-> 0, msg |-> [tag |-> "none", body |-> <<>>]]

\* ------------------------------------------------------------ polynomials
\* the k-th scalar read from the random stream r
StreamAt(r, k) == (r + 2 * k + 1) % Q

\* NewPriPoly(suite, t, s, rand): coefficient 0 is s when given, the others
\* are read from the stream; skip is the number of scalars already read
NewPriPoly(t, s, r, skip) ==
    [k \in 0 .. (t - 1) |->
        IF k = 0 /\ s # None THEN s[1]
        ELSE StreamAt(r, skip + k - (IF s # None THEN 1 ELSE 0))]

RECURSIVE Horner(_, _, _)
\* sum over j >= k of c[j] * x^(j-k), in Z_Q
Horner(c, x, k) ==
    IF k >= SliceLen(c) THEN 0 ELSE (c[k] + x * Horner(c, x, k + 1)) % Q

\* PriPoly.Eval(i) and PubPoly.Eval(i): the value at x = 1 + i
PriEval(p, i) == [I |-> i, V |-> Horner(p, (1 + i) % Q, 0)]
PubEval(c, i) == [I |-> i, V |-> Horner(c, (1 + i) % Q, 0)]

\* PriPoly.Commit(b)
Commit(p, b) == [k \in DOMAIN p |-> PointMul(b, p[k])]
\* PubPoly.Add
PubAdd(F, G) == [k \in DOMAIN F |-> PointAdd(F[k], G[k])]

\* ------------------------------------------------------------ vss.go helpers
MinimumT(n) == (n + 1) \div 2

\* validT with the lower bound 1
validTAtLeastOne(t, verifiers) ==
    t >= 1 /\ t <= SliceLen(verifiers) /\ uint32(t) = t

validT(t, verifiers) == t >= 2 /\ t <= SliceLen(verifiers) /\ uint32(t) = t

\* the hash of the marshalled verifiers, picked as a point: a fixed function
\* of the byte string, never the neutral element
RECURSIVE WeightedSum(_, _)
WeightedSum(s, k) ==
    IF k >= SliceLen(s) THEN 0 ELSE (k + 1) * s[k] + WeightedSum(s, k + 1)
deriveH(verifiers) == (WeightedSum(verifiers, 0) % (Q - 1)) + 1

findPub(verifiers, idx) ==
    IF idx >= SliceLen(verifiers) THEN [ok |-> FALSE, pub |-> 0]
    ELSE [ok |-> TRUE, pub |-> verifiers[idx]]

sessionID(dealer, verifiers, commitments, t) ==
    <<dealer>> \o MarshalSlice(verifiers) \o MarshalSlice(commitments) \o <<uint32(t)>>

msgResponse(r) ==
    [tag |-> "response", body |-> <<r.SessionID, r.Index, r.Status>>]

msgDeal(d) ==
    [tag |-> "deal",
     body |-> <<d.SessionID, d.SecShare.I, d.SecShare.V, d.RndShare.I, d.RndShare.V>>]

msgJustification(j) ==
    [tag |-> "justification", body |-> <<j.SessionID, j.Index, msgDeal(j.Deal).body>>]

\* ------------------------------------------------------------ aggregator
errDealAlreadyProcessed == "vss: verifier already received a deal"

newAggregator(dealer, verifiers, commitments, t, sid) ==
    [dealer |-> dealer, verifiers |-> verifiers, commits |-> commitments,
     t |-> t, sid |-> sid, responses |-> <<>>, deal |-> None, badDealer |-> FALSE]

\* the checks of VerifyDeal after the binding, first failure wins
VerifyDealChecks(a, d) ==
    IF ~validT(d.T, a.verifiers) THEN "vss: invalid t received in Deal"
    ELSE IF a.sid # d.SessionID THEN "vss: find different sessionIDs from Deal"
    ELSE IF ~VerifySchnorr(a.dealer, msgDeal(d), d.Signature) THEN "schnorr: invalid signature"
    ELSE IF d.SecShare.I # d.RndShare.I
        THEN "vss: not the same index for f and g share in Deal"
    ELSE IF d.SecShare.I < 0 \/ d.SecShare.I >= SliceLen(a.verifiers)
        THEN "vss: index out of bounds in Deal"
    ELSE LET fig == PointMul(Base, d.SecShare.V)
             H == deriveH(a.verifiers)
             gih == PointMul(H, d.RndShare.V)
             ci == PointAdd(fig, gih)
             pubShare == PubEval(d.Commitments, d.SecShare.I)
         IN  IF ci # pubShare.V
             THEN "vss: share do not verify against commitments in Deal"
             ELSE "nil"

\* VerifyDeal without the test for a deal that is already bound
VerifyDealNoInclusion(a, d, inclusion) ==
    LET a1 == IF a.deal = None
              THEN [a EXCEPT !.commits = d.Commitments,
                             !.sid = d.SessionID,
                             !.deal = Some(d)]
              ELSE a
    IN  [a |-> a1, err |-> VerifyDealChecks(a1, d)]

VerifyDeal(a, d, inclusion) ==
    IF a.deal # None /\ inclusion THEN [a |-> a, err |-> errDealAlreadyProcessed]
    ELSE LET a1 == IF a.deal = None
                   THEN [a EXCEPT !.commits = d.Commitments,
                                  !.sid = d.SessionID,
                                  !.deal = Some(d)]
                   ELSE a
         IN  [a |-> a1, err |-> VerifyDealChecks(a1, d)]

\* addResponse without the test for an existing response of the same index
addResponseOverwrite(a, r) ==
    IF ~findPub(a.verifiers, r.Index).ok
    THEN [a |-> a, err |-> "vss: index out of bounds in Complaint"]
    ELSE [a |-> [a EXCEPT !.responses =
                    (r.Index :> r) @@ [k \in DOMAIN a.responses \ {r.Index} |->
                                          a.responses[k]]],
          err |-> "nil"]

addResponse(a, r) ==
    IF ~findPub(a.verifiers, r.Index).ok
    THEN [a |-> a, err |-> "vss: index out of bounds in Complaint"]
    ELSE IF r.Index \in DOMAIN a.responses
    THEN [a |-> a, err |-> "vss: already existing response from same origin"]
    ELSE [a |-> [a EXCEPT !.responses = (r.Index :> r) @@ a.responses], err |-> "nil"]

\* verifyResponse refusing every Response once the dealer is flagged
verifyResponseStopsWhenFlagged(a, r) ==
    IF a.badDealer
    THEN [a |-> a, err |-> "vss: dealer is flagged"]
    ELSE IF r.SessionID # a.sid
    THEN [a |-> a, err |-> "vss: receiving inconsistent sessionID in response"]
    ELSE IF ~findPub(a.verifiers, r.Index).ok
    THEN [a |-> a, err |-> "vss: index out of bounds in response"]
    ELSE IF ~VerifySchnorr(findPub(a.verifiers, r.Index).pub, msgResponse(r), r.Signature)
    THEN [a |-> a, err |-> "schnorr: invalid signature"]
    ELSE addResponse(a, r)

verifyResponse(a, r) ==
    IF r.SessionID # a.sid
    THEN [a |-> a, err |-> "vss: receiving inconsistent sessionID in response"]
    ELSE IF ~findPub(a.verifiers, r.Index).ok
    THEN [a |-> a, err |-> "vss: index out of bounds in response"]
    ELSE IF ~VerifySchnorr(findPub(a.verifiers, r.Index).pub, msgResponse(r), r.Signature)
    THEN [a |-> a, err |-> "schnorr: invalid signature"]
    ELSE addResponse(a, r)

\* verifyJustification clearing the flag when a justification verifies
verifyJustificationResets(a, j) ==
    IF ~findPub(a.verifiers, j.Index).ok
    THEN [a |-> a, err |-> "vss: index out of bounds in justification"]
    ELSE IF j.Index \notin DOMAIN a.responses
    THEN [a |-> a, err |-> "vss: no complaints received for this justification"]
    ELSE IF a.responses[j.Index].Status # StatusComplaint
    THEN [a |-> a, err |-> "vss: justification received for an approval"]
    ELSE LET vd == VerifyDeal(a, j.Deal, FALSE)
         IN  IF vd.err # "nil"
             THEN [a |-> [vd.a EXCEPT !.badDealer = TRUE], err |-> vd.err]
             ELSE [a |-> [vd.a EXCEPT !.responses[j.Index].Status = statusJustified,
                                      !.badDealer = FALSE],
                   err |-> "nil"]

\* verifyJustification returning the error of a wrong justification without
\* flagging the dealer
verifyJustificationNoFlag(a, j) ==
    IF ~findPub(a.verifiers, j.Index).ok
    THEN [a |-> a, err |-> "vss: index out of bounds in justification"]
    ELSE IF j.Index \notin DOMAIN a.responses
    THEN [a |-> a, err |-> "vss: no complaints received for this justification"]
    ELSE IF a.responses[j.Index].Status # StatusComplaint
    THEN [a |-> a, err |-> "vss: justification received for an approval"]
    ELSE LET vd == VerifyDeal(a, j.Deal, FALSE)
         IN  IF vd.err # "nil"
             THEN [a |-> vd.a, err |-> vd.err]
             ELSE [a |-> [vd.a EXCEPT !.responses[j.Index].Status = statusJustified],
                   err |-> "nil"]

\* verifyJustification flagging the dealer for a justification that has no
\* stored response to answer
verifyJustificationFlagsUnknown(a, j) ==
    IF ~findPub(a.verifiers, j.Index).ok
    THEN [a |-> a, err |-> "vss: index out of bounds in justification"]
    ELSE IF j.Index \notin DOMAIN a.responses
    THEN [a |-> [a EXCEPT !.badDealer = TRUE],
          err |-> "vss: no complaints received for this justification"]
    ELSE IF a.responses[j.Index].Status # StatusComplaint
    THEN [a |-> a, err |-> "vss: justification received for an approval"]
    ELSE LET vd == VerifyDeal(a, j.Deal, FALSE)
         IN  IF vd.err # "nil"
             THEN [a |-> [vd.a EXCEPT !.badDealer = TRUE], err |-> vd.err]
             ELSE [a |-> [vd.a EXCEPT !.responses[j.Index].Status = statusJustified],
                   err |-> "nil"]

\* verifyJustification without the test for the status of the stored response
verifyJustificationAnyStatus(a, j) ==
    IF ~findPub(a.verifiers, j.Index).ok
    THEN [a |-> a, err |-> "vss: index out of bounds in justification"]
    ELSE IF j.Index \notin DOMAIN a.responses
    THEN [a |-> a, err |-> "vss: no complaints received for this justification"]
    ELSE LET vd == VerifyDeal(a, j.Deal, FALSE)
         IN  IF vd.err # "nil"
             THEN [a |-> [vd.a EXCEPT !.badDealer = TRUE], err |-> vd.err]
             ELSE [a |-> [vd.a EXCEPT !.responses[j.Index].Status = statusJustified],
                   err |-> "nil"]

verifyJustification(a, j) ==
    IF ~findPub(a.verifiers, j.Index).ok
    THEN [a |-> a, err |-> "vss: index out of bounds in justification"]
    ELSE IF j.Index \notin DOMAIN a.responses
    THEN [a |-> a, err |-> "vss: no complaints received for this justification"]
    ELSE IF a.responses[j.Index].Status # StatusComplaint
    THEN [a |-> a, err |-> "vss: justification received for an approval"]
    ELSE LET vd == VerifyDeal(a, j.Deal, FALSE)
         IN  IF vd.err # "nil"
             THEN [a |-> [vd.a EXCEPT !.badDealer = TRUE], err |-> vd.err]
             ELSE [a |-> [vd.a EXCEPT !.responses[j.Index].Status = statusJustified],
                   err |-> "nil"]

\* the loops of EnoughApprovals and DealCertified: the responses of the keys
\* in ks that have status st, counted one by one
RECURSIVE CountStatus(_, _, _)
CountStatus(responses, ks, st) ==
    IF ks = {} THEN 0
    ELSE LET k == CHOOSE x \in ks : TRUE
         IN  (IF responses[k].Status = st THEN 1 ELSE 0)
             + CountStatus(responses, ks \ {k}, st)

EnoughApprovals(a) ==
    CountStatus(a.responses, DOMAIN a.responses, StatusApproval) >= a.t

\* DealCertified without the badDealer flag
DealCertifiedNoBadDealer(a) ==
    LET comps == CountStatus(a.responses, DOMAIN a.responses, StatusComplaint)
    IN  EnoughApprovals(a) /\ ~(comps >= a.t)

\* DealCertified asking for exactly t approvals
DealCertifiedExactT(a) ==
    LET comps == CountStatus(a.responses, DOMAIN a.responses, StatusComplaint)
        tooMuchComplaints == comps >= a.t \/ a.badDealer
    IN  CountStatus(a.responses, DOMAIN a.responses, StatusApproval) = a.t
        /\ ~tooMuchComplaints

DealCertified(a) ==
    LET comps == CountStatus(a.responses, DOMAIN a.responses, StatusComplaint)
        tooMuchComplaints == comps >= a.t \/ a.badDealer
    IN  EnoughApprovals(a) /\ ~tooMuchComplaints

\* ------------------------------------------------------------ Dealer
signDeal(long, d) == [d EXCEPT !.Signature = Schnorr(long, msgDeal(d))]

NewDealerOp(longterm, secret, verifiers, r, t) ==
    IF ~validT(t, verifiers) THEN [err |-> "dealer: t invalid", d |-> None]
    ELSE LET H == deriveH(verifiers)
             f == NewPriPoly(t, Some(secret), r, 0)
             g == NewPriPoly(t, None, r, t - 1)
             pub == Pub(longterm)
             F == Commit(f, Base)
             G == Commit(g, H)
             commitments == PubAdd(F, G)
             sid == sessionID(pub, verifiers, commitments, t)
             deals == [i \in DOMAIN verifiers |->
                          signDeal(longterm,
                                   [SessionID |-> sid,
                                    SecShare |-> PriEval(f, i),
                                    RndShare |-> PriEval(g, i),
                                    Commitments |-> commitments,
                                    T |-> uint32(t),
                                    Signature |-> BadSig])]
         IN  [err |-> "nil",
              d |-> Some([long |-> longterm, pub |-> pub, secret |-> secret,
                          secretCommits |-> F, verifiers |-> verifiers, t |-> t,
                          sessionID |-> sid, deals |-> deals,
                          aggregator |->
                              newAggregator(pub, verifiers, commitments, t, sid)])]

\* Dealer.ProcessResponse answering every valid Response with a Justification
DealerProcessResponseJustifiesAll(d, r) ==
    LET vr == verifyResponse(d.aggregator, r)
        d1 == [d EXCEPT !.aggregator = vr.a]
        j0 == [SessionID |-> d.sessionID, Index |-> r.Index,
               Deal |-> d.deals[r.Index], Signature |-> BadSig]
        j == [j0 EXCEPT !.Signature = Schnorr(d.long, msgJustification(j0))]
    IN  IF vr.err # "nil" THEN [d |-> d1, err |-> vr.err, out |-> None]
        ELSE [d |-> d1, err |-> "nil", out |-> Some(j)]

DealerProcessResponseOp(d, r) ==
    LET vr == verifyResponse(d.aggregator, r)
        d1 == [d EXCEPT !.aggregator = vr.a]
        j0 == [SessionID |-> d.sessionID, Index |-> r.Index,
               Deal |-> d.deals[r.Index], Signature |-> BadSig]
        j == [j0 EXCEPT !.Signature = Schnorr(d.long, msgJustification(j0))]
    IN  IF vr.err # "nil" THEN [d |-> d1, err |-> vr.err, out |-> None]
        ELSE IF r.Status = StatusApproval THEN [d |-> d1, err |-> "nil", out |-> None]
        ELSE [d |-> d1, err |-> "nil", out |-> Some(j)]

\* SecretCommit without the test for a certified deal
SecretCommitUnchecked(d) == Some(PointMul(Base, d.secret))

SecretCommit(d) ==
    IF ~EnoughApprovals(d.aggregator) \/ ~DealCertified(d.aggregator) THEN None
    ELSE Some(PointMul(Base, d.secret))

Commits(d) ==
    IF ~EnoughApprovals(d.aggregator) \/ ~DealCertified(d.aggregator) THEN None
    ELSE Some(d.secretCommits)

\* ------------------------------------------------------------ Verifier
NewVerifierOp(longterm, dealerKey, verifiers) ==
    LET pub == Pub(longterm)
        found == {i \in DOMAIN verifiers : verifiers[i] = pub}
    IN  IF found = {} THEN None
        ELSE Some([longterm |-> longterm, pub |-> pub, dealer |-> dealerKey,
                   index |-> CHOOSE i \in found : \A k \in found : i <= k,
                   verifiers |-> verifiers, aggregator |-> None])

ProcessDealOp(v, d) ==
    IF d.SecShare.I # v.index
    THEN [v |-> v, err |-> "vss: verifier got wrong index from deal", out |-> None]
    ELSE LET t == d.T
             sid == sessionID(v.dealer, v.verifiers, d.Commitments, t)
             a0 == IF v.aggregator = None
                   THEN newAggregator(v.dealer, v.verifiers, d.Commitments, t, d.SessionID)
                   ELSE v.aggregator[1]
             vd == VerifyDeal(a0, d, TRUE)
             r0 == [SessionID |-> sid, Index |-> uint32(v.index),
                    Status |-> IF vd.err # "nil" THEN StatusComplaint ELSE StatusApproval,
                    Signature |-> BadSig]
             r == [r0 EXCEPT !.Signature = Schnorr(v.longterm, msgResponse(r0))]
             ar == addResponse(vd.a, r)
         IN  IF vd.err = errDealAlreadyProcessed
             THEN [v |-> [v EXCEPT !.aggregator = Some(vd.a)], err |-> vd.err, out |-> None]
             ELSE IF ar.err # "nil"
             THEN [v |-> [v EXCEPT !.aggregator = Some(ar.a)], err |-> ar.err, out |-> None]
             ELSE [v |-> [v EXCEPT !.aggregator = Some(ar.a)], err |-> "nil", out |-> Some(r)]

\* a call through the nil aggregator of a Verifier that saw no deal panics
errNilAggregator == "panic: nil pointer dereference"

VerifierProcessResponseOp(v, r) ==
    IF v.aggregator = None THEN [v |-> v, err |-> errNilAggregator]
    ELSE LET res == verifyResponse(v.aggregator[1], r)
         IN  [v |-> [v EXCEPT !.aggregator = Some(res.a)], err |-> res.err]

ProcessJustificationOp(v, j) ==
    IF v.aggregator = None THEN [v |-> v, err |-> errNilAggregator]
    ELSE LET res == verifyJustification(v.aggregator[1], j)
         IN  [v |-> [v EXCEPT !.aggregator = Some(res.a)], err |-> res.err]

\* the exported VerifyDeal of the embedded aggregator, called on a Verifier
VerifierVerifyDealOp(v, d, inclusion) ==
    IF v.aggregator = None THEN [v |-> v, err |-> errNilAggregator]
    ELSE LET res == VerifyDeal(v.aggregator[1], d, inclusion)
         IN  [v |-> [v EXCEPT !.aggregator = Some(res.a)], err |-> res.err]

\* the exported VerifyDeal of the embedded aggregator, called on the Dealer
DealerVerifyDealOp(d, deal, inclusion) ==
    LET res == VerifyDeal(d.aggregator, deal, inclusion)
    IN  [d |-> [d EXCEPT !.aggregator = res.a], err |-> res.err]

\* the getters a Verifier has through its embedded *aggregator: on a Verifier
\* that saw no deal they read a field of the nil aggregator and panic
VerifierEnoughApprovals(v) ==
    IF v.aggregator = None THEN [val |-> FALSE, err |-> errNilAggregator]
    ELSE [val |-> EnoughApprovals(v.aggregator[1]), err |-> "nil"]

VerifierDealCertified(v) ==
    IF v.aggregator = None THEN [val |-> FALSE, err |-> errNilAggregator]
    ELSE [val |-> DealCertified(v.aggregator[1]), err |-> "nil"]

VerifierSessionID(v) ==
    IF v.aggregator = None THEN [val |-> None, err |-> errNilAggregator]
    ELSE [val |-> Some(v.aggregator[1].sid), err |-> "nil"]

\* Verifier.Deal() calls v.EnoughApprovals() first
VerifierDealOp(v) ==
    IF VerifierEnoughApprovals(v).err # "nil"
    THEN [val |-> None, err |-> VerifierEnoughApprovals(v).err]
    ELSE IF ~VerifierEnoughApprovals(v).val \/ ~VerifierDealCertified(v).val
    THEN [val |-> None, err |-> "nil"]
    ELSE [val |-> v.aggregator[1].deal, err |-> "nil"]

VerifierDeal(v) ==
    IF ~EnoughApprovals(v.aggregator[1]) \/ ~DealCertified(v.aggregator[1]) THEN None
    ELSE v.aggregator[1].deal

\* ------------------------------------------------------------ threshold Schnorr
\* The Schnorr struct of poly that schnorr_test.go drives: every peer holds a
\* share of the long-term key and, in a round, a share of the round's random
\* secret, with the public polynomial of each.
errIndexOutOfRange == "panic: runtime error: index out of range"

PeerIndices == 0 .. (NumPeers - 1)

\* PolyInfo{edward, 2, n, n}
SchnorrT == 2

\* var msg = []byte("Hello World!")
HelloWorld == 5

LongtermPoly == NewPriPoly(SchnorrT, Some(3), 2, 0)
RandomPoly(seed) == NewPriPoly(SchnorrT, None, seed, 0)

\* the SharedSecret of peer i for the shared polynomial p, as
\* generateSharedSecrets(pl)[i] gives it
SharedSecret(p, i) == [Index |-> i, Share |-> PriEval(p, i).V, Pub |-> Commit(p, Base)]

\* generateSchnorrStructs(pl): no round yet, partials is the nil slice
generateSchnorrStructs ==
    [i \in PeerIndices |->
        [longterm |-> SharedSecret(LongtermPoly, i), random |-> None, hash |-> None,
         partials |-> <<>>]]

\* the hash of the message and of the commitment of the round's random secret,
\* as a scalar: a fixed function of both
hashMessage(m, commit) == (m + 3 * commit + 1) % Q

NewRoundOp(s, random, m) ==
    [s EXCEPT !.random = Some(random),
              !.hash = Some(hashMessage(m, random.Pub[0])),
              !.partials = [k \in PeerIndices |-> None]]

\* sigma_i = r_i + h * x_i
RevealPartialSig(s) ==
    [Index |-> s.longterm.Index,
     Part |-> (s.hash[1] * s.longterm.Share + s.random[1].Share) % Q]

\* sigma * B = R(i) + h * X(i)
verifyPartialSig(s, ps) ==
    LET left == PointMul(Base, ps.Part)
        right == PointAdd(PubEval(s.random[1].Pub, ps.Index).V,
                          PointMul(PubEval(s.longterm.Pub, ps.Index).V, s.hash[1]))
    IN  IF left # right THEN "Partial Signature could not be validated" ELSE "nil"

\* AddPartialSig storing the partial signature over the one it has
AddPartialSigOverwrite(s, ps) ==
    IF ps.Index >= NumPeers
    THEN [s |-> s, err |-> "Cannot add signature with index higher than the group"]
    ELSE IF ps.Index \notin DOMAIN s.partials THEN [s |-> s, err |-> errIndexOutOfRange]
    ELSE IF verifyPartialSig(s, ps) # "nil"
    THEN [s |-> s, err |-> "Partial signature to add is not valid"]
    ELSE [s |-> [s EXCEPT !.partials[ps.Index] = Some(ps)], err |-> "nil"]

\* before NewRound partials is nil and indexing it panics
AddPartialSigOp(s, ps) ==
    IF ps.Index >= NumPeers
    THEN [s |-> s, err |-> "Cannot add signature with index higher than the group"]
    ELSE IF ps.Index \notin DOMAIN s.partials THEN [s |-> s, err |-> errIndexOutOfRange]
    ELSE IF s.partials[ps.Index] # None
    THEN [s |-> s, err |-> "A Partial Signature has already been added for this index"]
    ELSE IF verifyPartialSig(s, ps) # "nil"
    THEN [s |-> s, err |-> "Partial signature to add is not valid"]
    ELSE [s |-> [s EXCEPT !.partials[ps.Index] = Some(ps)], err |-> "nil"]

\* ------------------------------------------------------------ state
VARIABLES
    dealer,             \* None, or Some(the Dealer built by NewDealer)
    verifier,           \* verifier[i]: the Verifier struct of verifier i
    corrupt,            \* the verifiers that do not follow the protocol
    tampered,           \* indices whose deal the dealer has replaced
    sentResponses,      \* the Responses returned by ProcessDeal
    sentJustifications, \* the Justifications returned by Dealer.ProcessResponse
    delivered,          \* the Responses the transport has handed over, by receiver
    promiseState,       \* None, or Some(the PromiseState of promise.go)
    schnorrs            \* schnorrs[i]: the Schnorr struct of peer i

vars == <<dealer, verifier, corrupt, tampered, sentResponses, sentJustifications,
          delivered, promiseState, schnorrs>>

Secrets == {3}
Seeds == {1}
\* the thresholds NewDealer is called with: below, inside and above the valid range
Thresholds == 1 .. (NumVerifiers + 1)

\* the corrupt verifiers are the last ones of the list
CorruptSets == {(NumVerifiers - k) .. (NumVerifiers - 1) : k \in 0 .. MaxCorrupt}
\* the deals a dishonest dealer replaces are those of the first verifiers
TamperIndices == 0 .. (MaxTamper - 1)
TamperKinds == {"share", "sid", "T"}
\* the verifiers the transport delivers Responses and Justifications to: the
\* aggregators do not read each other, the other verifiers only answer their deal
Receivers == 0 .. (NumReceivers - 1)

Honest == Indices \ corrupt

\* delivered.dealer and delivered.verifier[i]: the indices whose Response has
\* been handed to the Dealer and to verifier i by a transport that delivers once
NothingDelivered == [dealer |-> {}, verifier |-> [i \in Indices |-> {}]]

Init ==
    /\ dealer = None
    /\ verifier = [i \in Indices |->
                      NewVerifierOp(VerifierLong(i), Pub(DealerLong), Verifiers)[1]]
    /\ corrupt \in CorruptSets
    /\ tampered = {}
    /\ sentResponses = {}
    /\ sentJustifications = {}
    /\ delivered = NothingDelivered
    /\ promiseState = None
    /\ schnorrs = generateSchnorrStructs

\* ------------------------------------------------------------ inputs
\* the deals of another session: another dealer sharing with the same verifiers
ForeignDeals ==
    LET o == NewDealerOp(OutsiderLong, 1, Verifiers, 0, 2).d[1]
    IN  {o.deals[i] : i \in Receivers}

\* what a dishonest dealer puts in place of the deal d: another share, the
\* session id of another verifiers vector (both signed), a threshold out of range
TamperDealOp(long, d, kind) ==
    CASE kind = "share" ->
            signDeal(long, [d EXCEPT !.SecShare.V = (d.SecShare.V + 1) % Q])
      [] kind = "sid" ->
            signDeal(long, [d EXCEPT !.SessionID =
                sessionID(Pub(long), OtherVerifiers, d.Commitments, d.T)])
      [] kind = "T" -> [d EXCEPT !.T = 1]

DealerDeals == IF dealer = None THEN {} ELSE {dealer[1].deals[k] : k \in Indices}

DealInputs == DealerDeals \cup ForeignDeals

\* the deals the exported VerifyDeal is called with
VerifyDealInputs == {d \in DealInputs : d.SecShare.I \in Receivers}

RightSid == IF dealer = None THEN <<>> ELSE dealer[1].sessionID
WrongSid == RightSid \o <<0>>

signResponse(long, r) == [r EXCEPT !.Signature = Schnorr(long, msgResponse(r))]

\* what the corrupt verifiers and outsiders can send as a Response: any status
\* byte under a corrupt verifier's own signature, another session id, an index
\* out of range, and unsigned Responses in the name of an honest verifier
AdvResponses ==
    {signResponse(VerifierLong(k),
                  [SessionID |-> RightSid, Index |-> k, Status |-> st,
                   Signature |-> BadSig]) : k \in corrupt, st \in 0 .. 3}
    \cup
    {signResponse(VerifierLong(k),
                  [SessionID |-> WrongSid, Index |-> k, Status |-> StatusApproval,
                   Signature |-> BadSig]) : k \in corrupt}
    \cup
    {signResponse(VerifierLong(k),
                  [SessionID |-> RightSid, Index |-> NumVerifiers,
                   Status |-> StatusApproval, Signature |-> BadSig]) : k \in corrupt}
    \cup
    {[SessionID |-> RightSid, Index |-> i, Status |-> st, Signature |-> BadSig] :
        i \in Honest \ Receivers, st \in {StatusComplaint, StatusApproval}}

ResponseInputs == sentResponses \cup AdvResponses

\* what anybody can send as a Justification: the dealer's Justifications under
\* another session id, and the deals the corrupt verifiers hold or a deal of
\* another session, under a signature that is none
AdvJustifications ==
    {[j EXCEPT !.SessionID = WrongSid] : j \in sentJustifications}
    \cup
    {[SessionID |-> s, Index |-> i, Deal |-> d, Signature |-> BadSig] :
        s \in {RightSid, WrongSid},
        i \in Receivers \cup corrupt \cup {NumVerifiers},
        d \in (IF dealer = None THEN {} ELSE {dealer[1].deals[k] : k \in corrupt})
              \cup ForeignDeals}

JustificationInputs == sentJustifications \cup AdvJustifications

\* ------------------------------------------------------------ actions
NewDealer(secret, r, t) ==
    /\ dealer = None
    /\ dealer' = NewDealerOp(DealerLong, secret, Verifiers, r, t).d
    /\ UNCHANGED <<verifier, corrupt, tampered, sentResponses, sentJustifications,
                 delivered, promiseState, schnorrs>>

\* a dishonest dealer replaces the deal of verifier i
TamperDeal(i, kind) ==
    /\ dealer # None
    /\ i \notin tampered
    /\ dealer' = Some([dealer[1] EXCEPT
                          !.deals[i] = TamperDealOp(dealer[1].long, @, kind)])
    /\ tampered' = tampered \cup {i}
    /\ UNCHANGED <<verifier, corrupt, sentResponses, sentJustifications,
                 delivered, promiseState, schnorrs>>

ProcessDeal(i, d) ==
    /\ LET res == ProcessDealOp(verifier[i], d)
       IN  /\ verifier' = [verifier EXCEPT ![i] = res.v]
           /\ sentResponses' = sentResponses \cup {res.out[k] : k \in DOMAIN res.out}
    /\ UNCHANGED <<dealer, corrupt, tampered, sentJustifications,
                 delivered, promiseState, schnorrs>>

DealerProcessResponse(r) ==
    /\ dealer # None
    /\ LET res == DealerProcessResponseOp(dealer[1], r)
       IN  /\ dealer' = Some(res.d)
           /\ sentJustifications' =
                  sentJustifications \cup {res.out[k] : k \in DOMAIN res.out}
    /\ UNCHANGED <<verifier, corrupt, tampered, sentResponses,
                 delivered, promiseState, schnorrs>>

VerifierProcessResponse(i, r) ==
    /\ verifier' = [verifier EXCEPT ![i] = VerifierProcessResponseOp(@, r).v]
    /\ UNCHANGED <<dealer, corrupt, tampered, sentResponses, sentJustifications,
                 delivered, promiseState, schnorrs>>

ProcessJustification(i, j) ==
    /\ verifier' = [verifier EXCEPT ![i] = ProcessJustificationOp(@, j).v]
    /\ UNCHANGED <<dealer, corrupt, tampered, sentResponses, sentJustifications,
                 delivered, promiseState, schnorrs>>

DealerVerifyDeal(d, inclusion) ==
    /\ dealer # None
    /\ dealer' = Some(DealerVerifyDealOp(dealer[1], d, inclusion).d)
    /\ UNCHANGED <<verifier, corrupt, tampered, sentResponses, sentJustifications,
                 delivered, promiseState, schnorrs>>

VerifierVerifyDeal(i, d, inclusion) ==
    /\ verifier' = [verifier EXCEPT ![i] = VerifierVerifyDealOp(@, d, inclusion).v]
    /\ UNCHANGED <<dealer, corrupt, tampered, sentResponses, sentJustifications,
                 delivered, promiseState, schnorrs>>

Next ==
    \/ \E s \in Secrets, r \in Seeds, t \in Thresholds : NewDealer(s, r, t)
    \/ \E i \in TamperIndices, kind \in TamperKinds : TamperDeal(i, kind)
    \/ \E i \in Honest, d \in DealInputs : ProcessDeal(i, d)
    \/ \E r \in ResponseInputs : DealerProcessResponse(r)
    \/ \E i \in Honest \cap Receivers, r \in ResponseInputs :
           VerifierProcessResponse(i, r)
    \/ \E i \in Honest \cap Receivers, j \in JustificationInputs :
           ProcessJustification(i, j)
    \/ \E d \in ForeignDeals, inclusion \in BOOLEAN : DealerVerifyDeal(d, inclusion)
    \/ \E i \in Honest \cap Receivers, d \in VerifyDealInputs, inclusion \in BOOLEAN :
           VerifierVerifyDeal(i, d, inclusion)

Spec == Init /\ [][Next]_vars

\* ------------------------------------------------------------ the protocol alone
\* The run of the protocol over a transport that delivers what was sent and
\* nothing else, to the dealer and to every verifier: all verifiers follow the
\* protocol, the dealer may hand out a deal that is not the one it computed.
InitProtocol ==
    /\ Init
    /\ corrupt = {}

NextProtocol ==
    \/ \E s \in Secrets, r \in Seeds, t \in Thresholds : NewDealer(s, r, t)
    \/ \E i \in TamperIndices, kind \in TamperKinds : TamperDeal(i, kind)
    \/ \E i \in Indices, d \in DealerDeals : ProcessDeal(i, d)
    \/ \E r \in sentResponses : DealerProcessResponse(r)
    \/ \E i \in Indices, r \in sentResponses : VerifierProcessResponse(i, r)
    \/ \E i \in Indices, j \in sentJustifications : ProcessJustification(i, j)

SpecProtocol == InitProtocol /\ [][NextProtocol]_vars

\* ------------------------------------------------------------ the honest run
\* An honest dealer and honest verifiers over a transport that hands every
\* Response once to the Dealer and once to every Verifier, in any order.
HonestThresholds == 2 .. NumVerifiers

HonestProcessDeal(i) ==
    /\ dealer # None
    /\ verifier[i].aggregator = None
    /\ ProcessDeal(i, dealer[1].deals[i])

\* the Response of verifier k reaches the Dealer
HonestDeliverDealer(k) ==
    /\ dealer # None
    /\ k \notin delivered.dealer
    /\ \E r \in sentResponses :
           /\ r.Index = k
           /\ LET res == DealerProcessResponseOp(dealer[1], r)
              IN  /\ dealer' = Some(res.d)
                  /\ sentJustifications' =
                         sentJustifications \cup {res.out[x] : x \in DOMAIN res.out}
    /\ delivered' = [delivered EXCEPT !.dealer = @ \cup {k}]
    /\ UNCHANGED <<verifier, corrupt, tampered, sentResponses, promiseState, schnorrs>>

\* the Response of verifier k reaches verifier i
HonestDeliverVerifier(i, k) ==
    /\ k \notin delivered.verifier[i]
    /\ \E r \in sentResponses :
           /\ r.Index = k
           /\ verifier' = [verifier EXCEPT ![i] = VerifierProcessResponseOp(@, r).v]
    /\ delivered' = [delivered EXCEPT !.verifier[i] = @ \cup {k}]
    /\ UNCHANGED <<dealer, corrupt, tampered, sentResponses, sentJustifications,
                 promiseState, schnorrs>>

NextHonest ==
    \/ \E s \in Secrets, r \in Seeds, t \in HonestThresholds : NewDealer(s, r, t)
    \/ \E i \in Indices : HonestProcessDeal(i)
    \/ \E k \in Indices : HonestDeliverDealer(k)
    \/ \E i \in Indices, k \in Indices : HonestDeliverVerifier(i, k)

\* every verifier processes its deal and every Response is delivered
FairHonest ==
    /\ WF_vars(\E s \in Secrets, r \in Seeds, t \in HonestThresholds : NewDealer(s, r, t))
    /\ \A i \in Indices : WF_vars(HonestProcessDeal(i))
    /\ \A k \in Indices : WF_vars(HonestDeliverDealer(k))
    /\ \A i \in Indices : \A k \in Indices : WF_vars(HonestDeliverVerifier(i, k))

SpecHonest == InitProtocol /\ [][NextHonest]_vars /\ FairHonest

\* ------------------------------------------------------------ promise.go
sigMsg == [tag |-> "Promise Signature", body |-> <<>>]
sigBlameMsg == [tag |-> "Promise Blame Signature", body |-> <<>>]

PromiserLong == 1
InsurerLong(i) == i + 2
InsurerIndices == 0 .. (NumInsurers - 1)
Insurers == [i \in InsurerIndices |-> Pub(InsurerLong(i))]

\* the scalar picked from the cipher seeded with the marshalled point: a fixed
\* one-to-one function of the point
diffieHellmanSecret(diffieBase) == (2 * diffieBase + 3) % Q

\* PubPoly.Check(i, share)
pubPolyCheck(pubPoly, i, share) == PointMul(Base, share) = PubEval(pubPoly, i).V

ConstructPromiseOp(secret, long, t, r, insurers, rand) ==
    LET n == SliceLen(insurers)
    IN  IF ~(t <= r /\ r <= n)
        THEN [err |-> "panic: Invalid t, r, and n. Expected t <= r <= n", p |-> None]
        \* PriPoly.Pick makes a slice of t coefficients and writes its entry 0
        ELSE IF t < 1 THEN [err |-> errIndexOutOfRange, p |-> None]
        ELSE LET pripoly == NewPriPoly(t, Some(secret), rand, 0)
                 pubPoly == Commit(pripoly, Base)
                 secrets == [i \in DOMAIN insurers |->
                                (PriEval(pripoly, i).V
                                 + diffieHellmanSecret(PointMul(insurers[i], long))) % Q]
             IN  [err |-> "nil",
                  p |-> Some([id |-> <<Pub(secret)>>, t |-> t, r |-> r, n |-> n,
                              pubKey |-> Pub(long), pubPoly |-> pubPoly,
                              insurers |-> insurers, secrets |-> secrets])]

verifyPromise(p) ==
    IF p.t > p.n \/ p.t > p.r \/ p.r > p.n
    THEN "Invalid t-of-n shares Promise. Expected: t <= r <= n"
    ELSE IF SliceLen(p.insurers) # p.n \/ SliceLen(p.secrets) # p.n
    THEN "Insurers and secrets array should be of length promise.n"
    ELSE "nil"

\* VerifyShare taking the Diffie-Hellman point with the insurer's public key
\* in place of the promiser's
VerifyShareInsurerPoint(p, i, long) ==
    IF i < 0 \/ i >= p.n THEN "Invalid index. Expected 0 <= i < n"
    ELSE IF p.insurers[i] # Pub(long)
    THEN "The long-term public key the Promise recorded as the insurer"
             \o "of this shares differs from what is expected"
    ELSE LET diffieBase == PointMul(p.insurers[i], long)
             diffieSecret == diffieHellmanSecret(diffieBase)
             share == (p.secrets[i] - diffieSecret) % Q
         IN  IF ~pubPolyCheck(p.pubPoly, i, share)
             THEN "The share failed the public polynomial check."
             ELSE "nil"

VerifyShare(p, i, long) ==
    IF i < 0 \/ i >= p.n THEN "Invalid index. Expected 0 <= i < n"
    ELSE IF p.insurers[i] # Pub(long)
    THEN "The long-term public key the Promise recorded as the insurer"
             \o "of this shares differs from what is expected"
    ELSE LET diffieBase == PointMul(p.pubKey, long)
             diffieSecret == diffieHellmanSecret(diffieBase)
             share == (p.secrets[i] - diffieSecret) % Q
         IN  IF ~pubPolyCheck(p.pubPoly, i, share)
             THEN "The share failed the public polynomial check."
             ELSE "nil"

\* Promise.sign: a signature of the one-member set {gKeyPair.Public} over msg;
\* the index i is not part of what is signed
\* sign putting the index into the signed message
signBindsIndex(i, long, msg) ==
    [signature |-> Some(Schnorr(long, [tag |-> msg.tag, body |-> msg.body \o <<i>>]))]

sign(i, long, msg) == [signature |-> Some(Schnorr(long, msg))]

verifySignature(p, i, sig, msg) ==
    IF i < 0 \/ i >= p.n THEN "Invalid index. Expected 0 <= i < n"
    ELSE IF sig.signature = None THEN "Nil PromiseSignature"
    ELSE IF ~VerifySchnorr(p.insurers[i], msg, sig.signature[1])
    THEN "anon: invalid signature"
    ELSE "nil"

Sign(i, long) == sign(i, long, sigMsg)

VerifySignature(p, i, sig) == verifySignature(p, i, sig, sigMsg)

\* RevealShare taking the Diffie-Hellman point with the insurer's public key
\* in place of the promiser's
RevealShareInsurerPoint(p, i, long) ==
    IF i \notin DOMAIN p.secrets THEN [share |-> None, err |-> errIndexOutOfRange]
    ELSE LET diffieBase == PointMul(p.insurers[i], long)
             diffieSecret == diffieHellmanSecret(diffieBase)
         IN  [share |-> Some((p.secrets[i] - diffieSecret) % Q), err |-> "nil"]

\* p.secrets[i] of an index outside the slice panics
RevealShare(p, i, long) ==
    IF i \notin DOMAIN p.secrets THEN [share |-> None, err |-> errIndexOutOfRange]
    ELSE LET diffieBase == PointMul(p.pubKey, long)
             diffieSecret == diffieHellmanSecret(diffieBase)
         IN  [share |-> Some((p.secrets[i] - diffieSecret) % Q), err |-> "nil"]

VerifyRevealedShare(p, i, share) ==
    IF i < 0 \/ i >= p.n THEN "Invalid index. Expected 0 <= i < n"
    ELSE IF ~pubPolyCheck(p.pubPoly, i, share)
    THEN "The share failed the public polynomial check."
    ELSE "nil"

\* proof.HashProve for the predicate Rep("D", "x", "P"): a proof exists for the
\* holder of x with D = x.P, and it proves that statement and no other
HashProve(x, D, P) ==
    IF D = PointMul(P, x) THEN Some([D |-> D, P |-> P]) ELSE None
HashVerify(D, P, diffieKeyProof) == diffieKeyProof = Some([D |-> D, P |-> P])

\* Blame signing the approval message in place of the blame message
BlameSignsApproval(p, i, long) ==
    LET diffieKey == PointMul(p.pubKey, long)
        insurerSig == sign(i, long, sigMsg)
        proof == HashProve(long, diffieKey, p.pubKey)
    IN  IF proof = None THEN [bp |-> None, err |-> "proof: prover failed"]
        ELSE [bp |-> Some([diffieKey |-> diffieKey, diffieKeyProof |-> proof,
                           signature |-> insurerSig]),
              err |-> "nil"]

Blame(p, i, long) ==
    LET diffieKey == PointMul(p.pubKey, long)
        insurerSig == sign(i, long, sigBlameMsg)
        proof == HashProve(long, diffieKey, p.pubKey)
    IN  IF proof = None THEN [bp |-> None, err |-> "proof: prover failed"]
        ELSE [bp |-> Some([diffieKey |-> diffieKey, diffieKeyProof |-> proof,
                           signature |-> insurerSig]),
              err |-> "nil"]

VerifyBlame(p, i, blameProof) ==
    IF i < 0 \/ i >= p.n THEN "Invalid index. Expected 0 <= i < n"
    ELSE IF verifySignature(p, i, blameProof.signature, sigBlameMsg) # "nil"
    THEN verifySignature(p, i, blameProof.signature, sigBlameMsg)
    ELSE IF ~HashVerify(blameProof.diffieKey, p.pubKey, blameProof.diffieKeyProof)
    THEN "proof: invalid proof"
    ELSE LET diffieSecret == diffieHellmanSecret(blameProof.diffieKey)
             share == (p.secrets[i] - diffieSecret) % Q
         IN  IF pubPolyCheck(p.pubPoly, i, share)
             THEN "Unjustified blame. The share checks out okay."
             ELSE "nil"

\* Blame as an insurer runs it that hands the prover a scalar x of its own
\* choice in place of gKeyPair.Secret: the signature is the insurer's, the
\* Diffie-Hellman point and its proof are those of x
ForgedBlame(p, i, long, x) ==
    LET diffieKey == PointMul(p.pubKey, x)
        insurerSig == sign(i, long, sigBlameMsg)
        proof == HashProve(x, diffieKey, p.pubKey)
    IN  IF proof = None THEN [bp |-> None, err |-> "proof: prover failed"]
        ELSE [bp |-> Some([diffieKey |-> diffieKey, diffieKeyProof |-> proof,
                           signature |-> insurerSig]),
              err |-> "nil"]

\* PromiseState.Init
PromiseStateInit(promise) ==
    [Promise |-> promise,
     PriShares |-> [i \in 0 .. (promise.n - 1) |-> None],
     signatures |-> [i \in 0 .. (promise.n - 1) |-> None],
     blames |-> [i \in 0 .. (promise.n - 1) |-> None]]

AddSignatureOp(ps, i, sig) ==
    IF i \notin DOMAIN ps.signatures THEN [ps |-> ps, err |-> errIndexOutOfRange]
    ELSE [ps |-> [ps EXCEPT !.signatures[i] = sig], err |-> "nil"]

AddBlameProofOp(ps, i, bproof) ==
    IF i \notin DOMAIN ps.blames THEN [ps |-> ps, err |-> errIndexOutOfRange]
    ELSE [ps |-> [ps EXCEPT !.blames[i] = bproof], err |-> "nil"]

\* PromiseCertified looking at the signatures before the blame proofs
RECURSIVE BlameFrom(_, _)
BlameFrom(ps, i) ==
    IF i >= ps.Promise.n THEN FALSE
    ELSE \/ ps.blames[i] # None /\ VerifyBlame(ps.Promise, i, ps.blames[i][1]) = "nil"
         \/ BlameFrom(ps, i + 1)
RECURSIVE SignaturesFrom(_, _)
SignaturesFrom(ps, i) ==
    IF i >= ps.Promise.n THEN 0
    ELSE (IF ps.signatures[i] # None
             /\ VerifySignature(ps.Promise, i, ps.signatures[i][1]) = "nil"
          THEN 1 ELSE 0) + SignaturesFrom(ps, i + 1)
PromiseCertifiedSignaturesFirst(ps) ==
    IF verifyPromise(ps.Promise) # "nil" THEN verifyPromise(ps.Promise)
    ELSE IF SignaturesFrom(ps, 0) >= ps.Promise.r THEN "nil"
    ELSE IF BlameFrom(ps, 0)
    THEN "A valid blame proofs proves this Promise to be uncertified."
    ELSE "Not enough signatures yet to be certified"

\* the loop of PromiseCertified from slot i on, validSigs counted so far
RECURSIVE CertifiedFrom(_, _, _)
CertifiedFrom(ps, i, validSigs) ==
    IF i >= ps.Promise.n
    THEN IF validSigs < ps.Promise.r
         THEN "Not enough signatures yet to be certified"
         ELSE "nil"
    ELSE LET counted ==
                 IF ps.signatures[i] # None
                    /\ VerifySignature(ps.Promise, i, ps.signatures[i][1]) = "nil"
                 THEN validSigs + 1 ELSE validSigs
         IN  IF ps.blames[i] # None
                /\ VerifyBlame(ps.Promise, i, ps.blames[i][1]) = "nil"
             THEN "A valid blame proofs proves this Promise to be uncertified."
             ELSE CertifiedFrom(ps, i + 1, counted)

PromiseCertifiedOp(ps) ==
    IF verifyPromise(ps.Promise) # "nil" THEN verifyPromise(ps.Promise)
    ELSE CertifiedFrom(ps, 0, 0)

\* a promiser that does not follow ConstructPromise: the encrypted shares of
\* the slots in bad are not the shares of the committed polynomial
CorruptSecrets(p, bad) ==
    [p EXCEPT !.secrets = [i \in DOMAIN p.secrets |->
                              IF i \in bad THEN (p.secrets[i] + 1) % Q
                              ELSE p.secrets[i]]]

PromiseSecrets == {3}
PromiseThresholds == {2}
\* the r ConstructPromise is called with: below t, in range and above n
PromiseApprovals == 1 .. (NumInsurers + 1)
BadSlotSets == {{}, {0}}
\* the slots AddSignature and AddBlameProof are called with, one past the end
SlotInputs == 0 .. NumInsurers

\* the signatures handed to AddSignature: nil, the approval of each insurer,
\* and a PromiseSignature that holds no signature
SignatureInputs ==
    {None, Some([signature |-> None])}
    \cup {Some(Sign(k, InsurerLong(k))) : k \in InsurerIndices}

\* the insurers that assemble a blame proof with a scalar that is not their
\* key, and the scalar each of them uses
ForgingInsurers == {0}
ForgedScalar(k) == (InsurerLong(k) + 1) % Q

\* the blame proofs handed to AddBlameProof: nil, the Blame of each insurer,
\* and the proofs of the forging insurers
BlameInputs ==
    {None}
    \cup (IF promiseState = None THEN {}
          ELSE {Blame(promiseState[1].Promise, k, InsurerLong(k)).bp :
                   k \in InsurerIndices}
               \cup {ForgedBlame(promiseState[1].Promise, k, InsurerLong(k),
                                 ForgedScalar(k)).bp : k \in ForgingInsurers})

\* what the actions on a PromiseState leave alone
vssVars == <<dealer, verifier, corrupt, tampered, sentResponses, sentJustifications,
             delivered, schnorrs>>

NewPromiseState(secret, rand, t, r, bad) ==
    /\ promiseState = None
    /\ LET c == ConstructPromiseOp(secret, PromiserLong, t, r, Insurers, rand)
       IN  promiseState' =
               IF c.p = None THEN None
               ELSE Some(PromiseStateInit(CorruptSecrets(c.p[1], bad)))
    /\ UNCHANGED vssVars

AddSignature(i, sig) ==
    /\ promiseState # None
    /\ promiseState' = Some(AddSignatureOp(promiseState[1], i, sig).ps)
    /\ UNCHANGED vssVars

AddBlameProof(i, bproof) ==
    /\ promiseState # None
    /\ promiseState' = Some(AddBlameProofOp(promiseState[1], i, bproof).ps)
    /\ UNCHANGED vssVars

NextPromise ==
    \/ \E secret \in PromiseSecrets, rand \in Seeds, t \in PromiseThresholds,
          r \in PromiseApprovals, bad \in BadSlotSets :
           NewPromiseState(secret, rand, t, r, bad)
    \/ \E i \in SlotInputs, sig \in SignatureInputs : AddSignature(i, sig)
    \/ \E i \in SlotInputs, bproof \in BlameInputs : AddBlameProof(i, bproof)

SpecPromise == InitProtocol /\ [][NextPromise]_vars

\* ------------------------------------------------------------ wire codecs
\* A buffer is a sequence with one element for each uint32, Point, Secret,
\* proof and signature written to it.
PointValid(x) == x \in 0 .. (Q - 1)

errSliceBounds == "panic: runtime error: slice bounds out of range"
errInvalidPoint == "invalid point encoding"

\* ||n||t||r||pubKey||pubPoly||==insurers_array==||==secrets==||
PromiseMarshalBinary(p) ==
    <<uint32(p.n), uint32(p.t), uint32(p.r), p.pubKey>>
        \o MarshalSlice(p.pubPoly) \o MarshalSlice(p.insurers) \o MarshalSlice(p.secrets)

\* the Promise is filled in field by field; a buffer that ends before a field
\* makes the slice expression panic, a Point that does not decode is an error
PromiseUnmarshalBinary(buf) ==
    IF Len(buf) < 3 THEN [p |-> None, err |-> errIndexOutOfRange]
    ELSE LET n == buf[1]
             t == buf[2]
             r == buf[3]
             bufPos == 3
             polyPos == bufPos + 1
             insurersPos == polyPos + t
             secretsPos == insurersPos + n
         IN  IF Len(buf) < bufPos + 1 THEN [p |-> None, err |-> errSliceBounds]
             ELSE IF ~PointValid(buf[bufPos + 1])
             THEN [p |-> None, err |-> errInvalidPoint]
             ELSE IF Len(buf) < polyPos + t THEN [p |-> None, err |-> errSliceBounds]
             ELSE IF \E k \in 1 .. t : ~PointValid(buf[polyPos + k])
             THEN [p |-> None, err |-> errInvalidPoint]
             ELSE IF Len(buf) < insurersPos + n
             THEN [p |-> None, err |-> errSliceBounds]
             ELSE IF \E i \in 1 .. n : ~PointValid(buf[insurersPos + i])
             THEN [p |-> None, err |-> errInvalidPoint]
             ELSE IF Len(buf) < secretsPos + n
             THEN [p |-> None, err |-> errSliceBounds]
             ELSE LET promise ==
                          [id |-> <<>>, t |-> t, r |-> r, n |-> n,
                           pubKey |-> buf[bufPos + 1],
                           pubPoly |-> [k \in 0 .. (t - 1) |-> buf[polyPos + k + 1]],
                           insurers |->
                               [i \in 0 .. (n - 1) |-> buf[insurersPos + i + 1]],
                           secrets |->
                               [i \in 0 .. (n - 1) |-> buf[secretsPos + i + 1]]]
                  IN  [p |-> Some(promise), err |-> verifyPromise(promise)]

\* Promise.Equal; every Promise here is of the one suite
PromiseEqual(p, p2) ==
    IF p.n # p2.n THEN FALSE
    ELSE IF \E i \in 0 .. (p.n - 1) :
                p.secrets[i] # p2.secrets[i] \/ p.insurers[i] # p2.insurers[i]
    THEN FALSE
    ELSE p.t = p2.t /\ p.r = p2.r /\ p.pubKey = p2.pubKey /\ p.pubPoly = p2.pubPoly

\* the byte slice of length 0 that is not nil, as a signature and as a proof
EmptySignature == [signer |-> 0, msg |-> [tag |-> "", body |-> <<>>]]
EmptyProof == [D |-> Q, P |-> Q]

\* len() of the signature and proof slices: nil and the empty slice have
\* length 0, a signature or a proof is one element of the buffer
SignatureLen(signature) ==
    IF signature = None \/ signature = Some(EmptySignature) THEN 0 ELSE 1
ProofLen(diffieKeyProof) ==
    IF diffieKeyProof = None \/ diffieKeyProof = Some(EmptyProof) THEN 0 ELSE 1

\* ||Signature_Length||==Signature_Array===||
SignatureMarshalBinary(sig) ==
    <<uint32(SignatureLen(sig.signature))>>
        \o (IF SignatureLen(sig.signature) = 0 THEN <<>> ELSE sig.signature)

\* p.signature is the slice buf[uint32Size : uint32Size+sigLen], never nil
SignatureUnmarshalBinary(buf) ==
    IF Len(buf) < 1 THEN [sig |-> None, err |-> "Buffer size too small"]
    ELSE LET sigLen == buf[1]
         IN  IF Len(buf) < 1 + sigLen
             THEN [sig |-> None, err |-> "Buffer size too small"]
             ELSE [sig |-> Some([signature |->
                                    IF sigLen = 0 THEN Some(EmptySignature)
                                    ELSE Some(buf[2])]),
                   err |-> "nil"]

\* PromiseSignature.Equal: reflect.DeepEqual tells a nil slice from an empty one
SignatureEqual(sig, sig2) == sig.signature = sig2.signature

\* PromiseSignature.MarshalSize
SignatureMarshalSize(sig) == 1 + SignatureLen(sig.signature)

\* ||Diffie_Key_Proof_Length||PromiseSignature_Length||Diffie_Key||
\*    Diffie_Key_Proof||PromiseSignature||
BlameMarshalBinary(bp) ==
    <<uint32(ProofLen(bp.diffieKeyProof)), uint32(SignatureMarshalSize(bp.signature)),
      bp.diffieKey>>
        \o (IF ProofLen(bp.diffieKeyProof) = 0 THEN <<>> ELSE bp.diffieKeyProof)
        \o SignatureMarshalBinary(bp.signature)

BlameUnmarshalBinary(buf) ==
    IF Len(buf) < 3 THEN [bp |-> None, err |-> "Buffer size too small"]
    ELSE LET proofLen == buf[1]
             sigLen == buf[2]
             bufPos == 3
         IN  IF ~PointValid(buf[bufPos]) THEN [bp |-> None, err |-> errInvalidPoint]
             ELSE IF Len(buf) < 3 + proofLen + sigLen
             THEN [bp |-> None, err |-> "Buffer size too small"]
             ELSE LET s == SignatureUnmarshalBinary(
                               SubSeq(buf, bufPos + proofLen + 1,
                                      bufPos + proofLen + sigLen))
                  IN  IF s.err # "nil" THEN [bp |-> None, err |-> s.err]
                      ELSE [bp |-> Some([diffieKey |-> buf[bufPos],
                                         diffieKeyProof |->
                                             IF proofLen = 0 THEN Some(EmptyProof)
                                             ELSE Some(buf[bufPos + 1]),
                                         signature |-> s.sig[1]]),
                            err |-> "nil"]

BlameEqual(bp, bp2) ==
    /\ bp.diffieKey = bp2.diffieKey
    /\ bp.diffieKeyProof = bp2.diffieKeyProof
    /\ SignatureEqual(bp.signature, bp2.signature)

\* ------------------------------------------------------------ reconstruction
\* PriShares of poly: the share of slot i is the value at x = 1 + i, and
\* Secret() interpolates the value at 0 from the first t shares that are set
XCoord(i) == (1 + i) % Q
Inverse(a) == CHOOSE v \in 1 .. (Q - 1) : (v * a) % Q = 1

RECURSIVE LagrangeBasis(_, _)
LagrangeBasis(i, others) ==
    IF others = {} THEN 1
    ELSE LET j == CHOOSE k \in others : TRUE
         IN  (XCoord(j) * Inverse((XCoord(j) - XCoord(i)) % Q)
                  * LagrangeBasis(i, others \ {j})) % Q

RECURSIVE Interpolate(_, _, _)
Interpolate(shares, S, rest) ==
    IF rest = {} THEN 0
    ELSE LET i == CHOOSE k \in rest : TRUE
         IN  (shares[i][1] * LagrangeBasis(i, S \ {i})
                  + Interpolate(shares, S, rest \ {i})) % Q

SetShares(shares) == {i \in DOMAIN shares : shares[i] # None}

RECURSIVE FirstShares(_, _, _)
FirstShares(shares, i, k) ==
    IF k <= 0 \/ i >= SliceLen(shares) THEN {}
    ELSE IF shares[i] # None THEN {i} \cup FirstShares(shares, i + 1, k - 1)
    ELSE FirstShares(shares, i + 1, k)

PriSharesSecret(ps) ==
    LET S == FirstShares(ps.PriShares, 0, ps.Promise.t)
    IN  IF Cardinality(S) < ps.Promise.t
        THEN [secret |-> None, err |-> "panic: Not enough shares to reconstruct secret"]
        ELSE [secret |-> Some(Interpolate(ps.PriShares, S, S)), err |-> "nil"]

\* ------------------------------------------------------------ the Promise on the wire
\* A promiser constructs a Promise and keeps its PromiseState; every other
\* participant receives the marshalled Promise, unmarshals it and keeps a
\* PromiseState of its own, to which it adds the signatures and blame proofs
\* it receives and verifies and the shares the insurers reveal.
RotatedInsurers == [i \in InsurerIndices |-> Insurers[(i + 1) % NumInsurers]]
FewerInsurers == [i \in 0 .. (NumInsurers - 2) |-> Insurers[i]]
InsurerLists == {Insurers, RotatedInsurers, FewerInsurers}

WireSecrets == {2, 3}
\* the t ConstructPromise is called with: 0, in range and above n
WireThresholds == 0 .. (NumInsurers + 1)

\* a promiser that does not follow ConstructPromise: the commitments are not
\* those of the polynomial the shares come from.  "shift" changes the value
\* at every slot, "linear" keeps the value at slot 0 and changes the others
CorruptPubPoly(p, kind) ==
    IF kind = "shift"
    THEN [p EXCEPT !.pubPoly[0] = PointAdd(p.pubPoly[0], Base)]
    ELSE IF kind = "linear" /\ SliceLen(p.pubPoly) >= 2
    THEN [p EXCEPT !.pubPoly[0] = PointAdd(p.pubPoly[0], Q - Base),
                   !.pubPoly[1] = PointAdd(p.pubPoly[1], Base)]
    ELSE p

WireTampers ==
    {[bad |-> {}, poly |-> "none"], [bad |-> {0}, poly |-> "none"],
     [bad |-> {1}, poly |-> "none"], [bad |-> {}, poly |-> "shift"],
     [bad |-> {}, poly |-> "linear"]}

ConstructedPromises ==
    {c.p[1] : c \in {x \in {ConstructPromiseOp(secret, PromiserLong, t, r, insurers, rand) :
                               secret \in WireSecrets, t \in WireThresholds,
                               r \in PromiseApprovals, insurers \in InsurerLists,
                               rand \in Seeds} : x.p # None}}

SentPromises ==
    {CorruptPubPoly(CorruptSecrets(p, tamper.bad), tamper.poly) :
        p \in ConstructedPromises, tamper \in WireTampers}

\* Promises whose header is not the one ConstructPromise writes
MalformedBase == ConstructPromiseOp(3, PromiserLong, 2, 2, Insurers, 1).p[1]
MalformedPromises ==
    {[MalformedBase EXCEPT !.t = 0, !.pubPoly = <<>>],
     [MalformedBase EXCEPT !.t = 0, !.r = 0, !.pubPoly = <<>>],
     [MalformedBase EXCEPT !.r = 1],
     [MalformedBase EXCEPT !.r = MalformedBase.n + 1],
     [MalformedBase EXCEPT !.n = MalformedBase.n + 1],
     [MalformedBase EXCEPT !.pubKey = Q]}

PromiseEncodings ==
    {PromiseMarshalBinary(p) : p \in SentPromises \cup MalformedPromises}
    \cup {<<>>, SubSeq(PromiseMarshalBinary(MalformedBase), 1, 3)}

SignatureMessages == {m[1] : m \in SignatureInputs \ {None}}
SignatureEncodings ==
    {SignatureMarshalBinary(m) : m \in SignatureMessages} \cup {<<>>, <<1>>}

BlameMessages == {m[1] : m \in BlameInputs \ {None}}
BlameEncodings ==
    {BlameMarshalBinary(m) : m \in BlameMessages}
    \cup {<<>>} \cup {SubSeq(BlameMarshalBinary(m), 1, 4) : m \in BlameMessages}

ConstructPromise(secret, rand, t, r, insurers) ==
    /\ promiseState = None
    /\ LET c == ConstructPromiseOp(secret, PromiserLong, t, r, insurers, rand)
       IN  promiseState' =
               IF c.p = None THEN None ELSE Some(PromiseStateInit(c.p[1]))
    /\ UNCHANGED vssVars

ReceivePromise(buf) ==
    /\ promiseState = None
    /\ LET u == PromiseUnmarshalBinary(buf)
       IN  promiseState' =
               IF u.err # "nil" THEN None ELSE Some(PromiseStateInit(u.p[1]))
    /\ UNCHANGED vssVars

\* the signature is unmarshalled, verified and only then added
ReceiveSignature(i, buf) ==
    /\ promiseState # None
    /\ LET ps == promiseState[1]
           u == SignatureUnmarshalBinary(buf)
       IN  promiseState' =
               IF u.err # "nil" THEN promiseState
               ELSE IF VerifySignature(ps.Promise, i, u.sig[1]) # "nil"
               THEN promiseState
               ELSE Some(AddSignatureOp(ps, i, u.sig).ps)
    /\ UNCHANGED vssVars

ReceiveBlameProof(i, buf) ==
    /\ promiseState # None
    /\ LET ps == promiseState[1]
           u == BlameUnmarshalBinary(buf)
       IN  promiseState' =
               IF u.err # "nil" THEN promiseState
               ELSE IF VerifyBlame(ps.Promise, i, u.bp[1]) # "nil"
               THEN promiseState
               ELSE Some(AddBlameProofOp(ps, i, u.bp).ps)
    /\ UNCHANGED vssVars

\* insurer k reveals the share of slot i; the client sets it in PriShares once
\* it passes VerifyRevealedShare
SetShare(i, k) ==
    /\ promiseState # None
    /\ LET ps == promiseState[1]
           rv == RevealShare(ps.Promise, i, InsurerLong(k))
       IN  /\ rv.err = "nil"
           /\ VerifyRevealedShare(ps.Promise, i, rv.share[1]) = "nil"
           /\ promiseState' = Some([ps EXCEPT !.PriShares[i] = rv.share])
    /\ UNCHANGED vssVars

NextWire ==
    \/ \E secret \in WireSecrets, rand \in Seeds, t \in WireThresholds,
          r \in PromiseApprovals, insurers \in InsurerLists :
           ConstructPromise(secret, rand, t, r, insurers)
    \/ \E buf \in PromiseEncodings : ReceivePromise(buf)
    \/ \E i \in SlotInputs, buf \in SignatureEncodings : ReceiveSignature(i, buf)
    \/ \E i \in SlotInputs, buf \in BlameEncodings : ReceiveBlameProof(i, buf)
    \/ \E i \in SlotInputs, k \in InsurerIndices : SetShare(i, k)

SpecWire == InitProtocol /\ [][NextWire]_vars

\* ------------------------------------------------------------ a Schnorr round
\* The peers start a round with the shared random secret of one of the seeds,
\* reveal their partial signatures and add the ones they are given.
RoundSeeds == {1, 2}

WithRound == {i \in PeerIndices : schnorrs[i].random # None}

\* the partial signatures handed to AddPartialSig: those the peers reveal, and
\* for every index and one past the last the Part that is the scalar One
PartialSigInputs ==
    {RevealPartialSig(schnorrs[i]) : i \in WithRound}
    \cup {[Index |-> k, Part |-> 1] : k \in 0 .. NumPeers}

NewRound(i, seed) ==
    /\ schnorrs' = [schnorrs EXCEPT
                       ![i] = NewRoundOp(@, SharedSecret(RandomPoly(seed), i), HelloWorld)]
    /\ UNCHANGED <<dealer, verifier, corrupt, tampered, sentResponses,
                 sentJustifications, delivered, promiseState>>

AddPartialSig(j, ps) ==
    /\ schnorrs' = [schnorrs EXCEPT ![j] = AddPartialSigOp(@, ps).s]
    /\ UNCHANGED <<dealer, verifier, corrupt, tampered, sentResponses,
                 sentJustifications, delivered, promiseState>>

NextSchnorr ==
    \/ \E i \in PeerIndices, seed \in RoundSeeds : NewRound(i, seed)
    \/ \E j \in PeerIndices, ps \in PartialSigInputs : AddPartialSig(j, ps)

SpecSchnorr == InitProtocol /\ [][NextSchnorr]_vars

\* ------------------------------------------------------------ claims
\* the aggregators that exist: the Dealer's and those of the Verifiers that
\* have created one
DealerAggregators == IF dealer = None THEN {} ELSE {dealer[1].aggregator}
WithAggregator == {i \in Indices : verifier[i].aggregator # None}
VerifierAggregators == {verifier[i].aggregator[1] : i \in WithAggregator}
Aggregators == DealerAggregators \cup VerifierAggregators

WithStatus(a, st) == {k \in DOMAIN a.responses : a.responses[k].Status = st}

\* C1: in every reachable aggregator state DealCertified() is true iff at least
\* t stored responses are Approvals, badDealer is false and fewer than t stored
\* responses are Complaints; a Justified response counts as neither.
C1_DealCertifiedPredicate ==
    \A a \in Aggregators :
        DealCertified(a) <=>
            /\ Cardinality(WithStatus(a, StatusApproval)) >= a.t
            /\ ~a.badDealer
            /\ Cardinality(WithStatus(a, StatusComplaint)) < a.t

\* a certified aggregator that holds a justified complaint, and a flagged one
\* with enough approvals and fewer than t complaints
C1_Witness ==
    /\ \E a \in Aggregators : DealCertified(a) /\ WithStatus(a, statusJustified) # {}
    /\ \E a \in Aggregators :
           /\ a.badDealer
           /\ Cardinality(WithStatus(a, StatusApproval)) >= a.t
           /\ Cardinality(WithStatus(a, StatusComplaint)) < a.t

\* C2: once every Response and every Justification that was emitted has been
\* processed by the dealer and by every verifier that processed its deal,
\* DealCertified() has the same value at the dealer and at all those verifiers.
\* Quiescent: processing any emitted message once more changes nothing, at the
\* dealer and at every verifier that has a deal.  A message that is not yet
\* processed changes the state or is refused, and one that is refused now is
\* refused when delivered now: from a quiescent state one more delivery of
\* every message leads to the same state with every message processed.
Quiescent ==
    /\ dealer # None
    /\ \A r \in sentResponses :
           DealerProcessResponseOp(dealer[1], r).d = dealer[1]
    /\ \A i \in WithAggregator :
           /\ \A r \in sentResponses :
                  VerifierProcessResponseOp(verifier[i], r).v = verifier[i]
           /\ \A j \in sentJustifications :
                  ProcessJustificationOp(verifier[i], j).v = verifier[i]

C2_Agreement ==
    Quiescent =>
        \A i \in WithAggregator :
            DealCertified(verifier[i].aggregator[1])
                = DealCertified(dealer[1].aggregator)

\* C3: once badDealer is true on an aggregator no call resets it, and
\* DealCertified() is false in every state where it is true.
BadDealerAt(i) == verifier[i].aggregator # None /\ verifier[i].aggregator[1].badDealer
BadDealerAtDealer == dealer # None /\ dealer[1].aggregator.badDealer

C3_BadDealerSticky ==
    /\ [][/\ \A i \in Indices : BadDealerAt(i) => BadDealerAt(i)'
          /\ BadDealerAtDealer => BadDealerAtDealer']_vars
    /\ [](\A a \in Aggregators : a.badDealer => ~DealCertified(a))

\* a flagged aggregator that has enough approvals, fewer than t complaints and
\* a complaint that was justified after the flag could only have been set
C3_Witness ==
    \E a \in Aggregators :
        /\ a.badDealer
        /\ Cardinality(WithStatus(a, StatusApproval)) >= a.t
        /\ Cardinality(WithStatus(a, StatusComplaint)) < a.t
        /\ WithStatus(a, statusJustified) # {}

\* C4: Verifier.ProcessDeal returns an error and no Response whenever the
\* deal's SessionID differs from the session id the verifier recomputes from
\* its dealer key, its verifiers, d.Commitments and d.T.
C4_SessionIDChecked ==
    \A i \in Honest : \A d \in DealInputs :
        LET v == verifier[i]
            res == ProcessDealOp(v, d)
        IN  d.SessionID # sessionID(v.dealer, v.verifiers, d.Commitments, d.T)
                => res.err # "nil" /\ res.out = None

\* C5: ProcessJustification accepts a Justification, or changes any state
\* because of it, only if j.Signature is a valid dealer signature over
\* msgJustification(j).
C5_JustificationSignatureVerified ==
    \A i \in Honest : \A j \in JustificationInputs :
        LET v == verifier[i]
            res == ProcessJustificationOp(v, j)
        IN  (res.err = "nil" \/ res.v # v)
                => VerifySchnorr(v.dealer, msgJustification(j), j.Signature)

\* C6: every Response held in responses has the aggregator's sid, an Index
\* in [0, n), is stored under its own Index and carries a signature that
\* verifies under verifiers[Index]; a message that fails validation leaves
\* responses unchanged.
StoredResponseVerified(a, k) ==
    LET r == a.responses[k]
    IN  /\ r.SessionID = a.sid
        /\ r.Index >= 0 /\ r.Index < SliceLen(a.verifiers)
        /\ r.Index = k
        /\ VerifySchnorr(a.verifiers[r.Index], msgResponse(r), r.Signature)

RejectedLeavesResponses ==
    /\ \A i \in WithAggregator :
           LET v == verifier[i]
               a == v.aggregator[1]
           IN  /\ \A d \in DealInputs :
                      LET res == ProcessDealOp(v, d)
                      IN  res.err # "nil" => res.v.aggregator[1].responses = a.responses
               /\ \A r \in ResponseInputs :
                      LET res == VerifierProcessResponseOp(v, r)
                      IN  res.err # "nil" => res.v.aggregator[1].responses = a.responses
               /\ \A j \in JustificationInputs :
                      LET res == ProcessJustificationOp(v, j)
                      IN  res.err # "nil" => res.v.aggregator[1].responses = a.responses
    /\ \A r \in ResponseInputs :
           dealer # None =>
               LET res == DealerProcessResponseOp(dealer[1], r)
               IN  res.err # "nil"
                       => res.d.aggregator.responses = dealer[1].aggregator.responses

C6_OnlyVerifiedResponsesStored ==
    /\ \A a \in Aggregators : \A k \in DOMAIN a.responses : StoredResponseVerified(a, k)
    /\ RejectedLeavesResponses

\* C7: once sid, commitments or deal are bound on an aggregator (at NewDealer
\* for a Dealer, at the first ProcessDeal for a Verifier), no operation
\* changes any of them.
BindingKept(a, b) ==
    /\ b.sid = a.sid
    /\ b.commits = a.commits
    /\ a.deal # None => b.deal = a.deal

C7_BindingsImmutable ==
    [][/\ \A i \in Indices :
              verifier[i].aggregator # None =>
                  /\ verifier'[i].aggregator # None
                  /\ BindingKept(verifier[i].aggregator[1], verifier'[i].aggregator[1])
       /\ dealer # None =>
              /\ dealer' # None
              /\ BindingKept(dealer[1].aggregator, dealer'[1].aggregator)]_vars

\* C8: once an aggregator's sid is bound, a Response, a Deal and a
\* Justification whose SessionID differs from it each return an error, and
\* none of them changes responses, a stored status or badDealer.
SameVerdictState(a, b) == b.responses = a.responses /\ b.badDealer = a.badDealer

C8_OtherSessionRejected ==
    /\ \A i \in WithAggregator :
           LET v == verifier[i]
               a == v.aggregator[1]
           IN  /\ \A r \in ResponseInputs :
                      LET res == VerifierProcessResponseOp(v, r)
                      IN  r.SessionID # a.sid =>
                              res.err # "nil" /\ SameVerdictState(a, res.v.aggregator[1])
               /\ \A d \in DealInputs :
                      LET res == ProcessDealOp(v, d)
                      IN  d.SessionID # a.sid =>
                              res.err # "nil" /\ SameVerdictState(a, res.v.aggregator[1])
               /\ \A d \in DealInputs, inclusion \in BOOLEAN :
                      LET res == VerifierVerifyDealOp(v, d, inclusion)
                      IN  d.SessionID # a.sid =>
                              res.err # "nil" /\ SameVerdictState(a, res.v.aggregator[1])
               /\ \A j \in JustificationInputs :
                      LET res == ProcessJustificationOp(v, j)
                      IN  j.SessionID # a.sid =>
                              res.err # "nil" /\ SameVerdictState(a, res.v.aggregator[1])
    /\ dealer # None =>
           LET a == dealer[1].aggregator
           IN  /\ \A r \in ResponseInputs :
                      LET res == DealerProcessResponseOp(dealer[1], r)
                      IN  r.SessionID # a.sid =>
                              res.err # "nil" /\ SameVerdictState(a, res.d.aggregator)
               /\ \A d \in DealInputs, inclusion \in BOOLEAN :
                      LET res == DealerVerifyDealOp(dealer[1], d, inclusion)
                      IN  d.SessionID # a.sid =>
                              res.err # "nil" /\ SameVerdictState(a, res.d.aggregator)

\* C9: ProcessResponse, on the Dealer or on a Verifier, with a Response whose
\* Index already has an entry in responses returns an error and leaves the
\* whole aggregator unchanged, whatever the status of the new Response.
C9_DuplicateRejected ==
    /\ \A i \in WithAggregator : \A r \in ResponseInputs :
           LET v == verifier[i]
               res == VerifierProcessResponseOp(v, r)
           IN  r.Index \in DOMAIN v.aggregator[1].responses
                   => res.err # "nil" /\ res.v = v
    /\ \A r \in ResponseInputs :
           dealer # None =>
               LET res == DealerProcessResponseOp(dealer[1], r)
               IN  r.Index \in DOMAIN dealer[1].aggregator.responses
                       => res.err # "nil" /\ res.out = None /\ res.d = dealer[1]

\* a Response that passes every check but the duplicate test and has a status
\* other than the stored one can be delivered, at a verifier and at the dealer
DuplicateAt(a) ==
    \E r \in ResponseInputs :
        /\ r.Index \in DOMAIN a.responses
        /\ r.SessionID = a.sid
        /\ VerifySchnorr(a.verifiers[r.Index], msgResponse(r), r.Signature)
        /\ r.Status # a.responses[r.Index].Status

C9_Witness ==
    /\ \E a \in VerifierAggregators : DuplicateAt(a)
    /\ \E a \in DealerAggregators : DuplicateAt(a)

\* C10: ProcessJustification(j) when the stored response of j.Index is a
\* Complaint: if VerifyDeal(j.Deal, false) fails an error is returned,
\* badDealer becomes true and DealCertified() is false; if it succeeds the
\* stored status becomes Justified, badDealer is unchanged and the response
\* no longer counts as a complaint.
C10_JustificationOutcome ==
    \A i \in WithAggregator : \A j \in JustificationInputs :
        LET v == verifier[i]
            a == v.aggregator[1]
            res == ProcessJustificationOp(v, j)
            b == res.v.aggregator[1]
        IN  (j.Index \in DOMAIN a.responses
             /\ a.responses[j.Index].Status = StatusComplaint) =>
                IF VerifyDeal(a, j.Deal, FALSE).err # "nil"
                THEN /\ res.err # "nil"
                     /\ b.badDealer
                     /\ ~DealCertified(b)
                     /\ b.responses = a.responses
                ELSE /\ res.err = "nil"
                     /\ b.responses[j.Index].Status = statusJustified
                     /\ b.badDealer = a.badDealer
                     /\ WithStatus(b, StatusComplaint)
                            = WithStatus(a, StatusComplaint) \ {j.Index}
                     /\ WithStatus(b, StatusApproval) = WithStatus(a, StatusApproval)

\* a verifier holds a complaint for which both a justification that verifies
\* and one that does not can be delivered, after one of each kind was processed
C10_Witness ==
    \E i \in WithAggregator :
        LET a == verifier[i].aggregator[1]
        IN  /\ a.badDealer
            /\ WithStatus(a, statusJustified) # {}
            /\ \E j \in JustificationInputs :
                   /\ j.Index \in WithStatus(a, StatusComplaint)
                   /\ VerifyDeal(a, j.Deal, FALSE).err = "nil"
            /\ \E j \in JustificationInputs :
                   /\ j.Index \in WithStatus(a, StatusComplaint)
                   /\ VerifyDeal(a, j.Deal, FALSE).err # "nil"

\* C11: a Justification whose index is out of range, has no stored response
\* yet or has a stored Approval returns an error and leaves the aggregator
\* unchanged; once the Complaint of its index is stored the same Justification
\* is handled: the verdict of VerifyDeal(j.Deal, false) decides between
\* badDealer and Justified.
NoComplaintFor(a, j) ==
    \/ j.Index < 0 \/ j.Index >= SliceLen(a.verifiers)
    \/ j.Index \notin DOMAIN a.responses
    \/ a.responses[j.Index].Status = StatusApproval

\* the Complaints of the index of j that the aggregator a accepts
ComplaintsFor(a, j) ==
    {r \in ResponseInputs :
        /\ r.Index = j.Index
        /\ r.Status = StatusComplaint
        /\ verifyResponse(a, r).err = "nil"}

C11_JustificationNeedsComplaint ==
    \A i \in WithAggregator : \A j \in JustificationInputs :
        LET v == verifier[i]
            a == v.aggregator[1]
            res == ProcessJustificationOp(v, j)
        IN  NoComplaintFor(a, j) =>
                /\ res.err # "nil"
                /\ res.v = v
                /\ \A r \in ComplaintsFor(a, j) :
                       LET v1 == VerifierProcessResponseOp(v, r).v
                           a1 == v1.aggregator[1]
                           late == ProcessJustificationOp(v1, j)
                           b == late.v.aggregator[1]
                       IN  IF VerifyDeal(a1, j.Deal, FALSE).err # "nil"
                           THEN late.err # "nil" /\ b.badDealer
                                /\ b.responses = a1.responses
                           ELSE late.err = "nil"
                                /\ b.responses[j.Index].Status = statusJustified
                                /\ b.badDealer = a1.badDealer

\* a verifier that holds an Approval is sent a Justification for it, one out of
\* range, and, for an index that has no response yet and whose Complaint can
\* still arrive, one whose deal verifies and one whose deal does not
C11_Witness ==
    \E i \in WithAggregator :
        LET a == verifier[i].aggregator[1]
            early == {j \in JustificationInputs :
                         /\ j.Index < SliceLen(a.verifiers)
                         /\ j.Index \notin DOMAIN a.responses
                         /\ ComplaintsFor(a, j) # {}}
        IN  /\ \E j \in JustificationInputs : j.Index \in WithStatus(a, StatusApproval)
            /\ \E j \in JustificationInputs : j.Index >= SliceLen(a.verifiers)
            /\ \E j \in early : VerifyDeal(a, j.Deal, FALSE).err = "nil"
            /\ \E j \in early : VerifyDeal(a, j.Deal, FALSE).err # "nil"

\* C12: once DealCertified() is true and badDealer is false on an aggregator,
\* every further Response with status Approval that is processed, at the
\* Dealer or at a Verifier, leaves DealCertified() true.
C12_ApprovalsKeepCertified ==
    /\ [](\A a \in Aggregators : \A r \in ResponseInputs :
             (DealCertified(a) /\ ~a.badDealer /\ r.Status = StatusApproval)
                 => DealCertified(verifyResponse(a, r).a))
    /\ [][\A r \in ResponseInputs :
             r.Status = StatusApproval =>
                 /\ (DealerProcessResponse(r) /\ DealCertified(dealer[1].aggregator))
                        => DealCertified(dealer'[1].aggregator)
                 /\ \A i \in WithAggregator :
                        (VerifierProcessResponse(i, r)
                         /\ DealCertified(verifier[i].aggregator[1]))
                            => DealCertified(verifier'[i].aggregator[1])]_vars

\* a certified aggregator that has taken an Approval beyond the t-th, at the
\* Dealer and at a Verifier
C12_Witness ==
    /\ \E a \in DealerAggregators :
           DealCertified(a) /\ Cardinality(WithStatus(a, StatusApproval)) > a.t
    /\ \E a \in VerifierAggregators :
           DealCertified(a) /\ Cardinality(WithStatus(a, StatusApproval)) > a.t

\* C13: the first ProcessDeal of a Verifier with a deal addressed to its index
\* returns a signed Response with the verifier's index, Status Approval iff
\* the deal is valid (T in range, the session id of this dealer, these
\* verifiers, d.Commitments and d.T, dealer signature, equal share indices in
\* range, share matching the commitments) and Status Complaint otherwise, and
\* stores that Response under the verifier's index.
DealIsValid(v, d) ==
    /\ validT(d.T, v.verifiers)
    /\ d.SessionID = sessionID(v.dealer, v.verifiers, d.Commitments, d.T)
    /\ VerifySchnorr(v.dealer, msgDeal(d), d.Signature)
    /\ d.SecShare.I = d.RndShare.I
    /\ d.SecShare.I >= 0 /\ d.SecShare.I < SliceLen(v.verifiers)
    /\ PointAdd(PointMul(Base, d.SecShare.V),
                PointMul(deriveH(v.verifiers), d.RndShare.V))
           = PubEval(d.Commitments, d.SecShare.I).V

C13_FirstDealAnswered ==
    \A i \in Honest : \A d \in DealInputs :
        LET v == verifier[i]
            res == ProcessDealOp(v, d)
        IN  (v.aggregator = None /\ d.SecShare.I = v.index) =>
                /\ res.err = "nil"
                /\ res.out # None
                /\ LET r == res.out[1]
                   IN  /\ r.Index = v.index
                       /\ VerifySchnorr(v.pub, msgResponse(r), r.Signature)
                       /\ r.Status = (IF DealIsValid(v, d) THEN StatusApproval
                                                           ELSE StatusComplaint)
                       /\ res.v.aggregator # None
                       /\ v.index \in DOMAIN res.v.aggregator[1].responses
                       /\ res.v.aggregator[1].responses[v.index] = r

\* C14: after a Verifier has processed a deal, every later ProcessDeal call
\* returns an error and no Response and leaves responses, sid, commitments,
\* deal and badDealer unchanged; the error is DealAlreadyProcessed when the
\* deal is addressed to the verifier's index and the wrong-index error
\* otherwise.
LaterDealLeavesState(v, d) ==
    LET res == ProcessDealOp(v, d)
    IN  /\ res.err # "nil"
        /\ res.out = None
        /\ res.v = v

C14_LaterDealRefused ==
    \A i \in WithAggregator \cap Honest : \A d \in DealInputs :
        LET v == verifier[i]
        IN  /\ LaterDealLeavesState(v, d)
            /\ ProcessDealOp(v, d).err =
                   (IF d.SecShare.I = v.index THEN errDealAlreadyProcessed
                    ELSE "vss: verifier got wrong index from deal")

\* C14 as stated: every later ProcessDeal call returns the DealAlreadyProcessed
\* error with no Response and leaves the aggregator unchanged.
C14_LaterDealAlreadyProcessed ==
    \A i \in WithAggregator \cap Honest : \A d \in DealInputs :
        LET v == verifier[i]
        IN  /\ LaterDealLeavesState(v, d)
            /\ ProcessDealOp(v, d).err = errDealAlreadyProcessed

\* a verifier that answered a deal is handed another deal for its index, one
\* signed by its dealer and one of another session, and a deal for another index
C14_Witness ==
    \E i \in WithAggregator \cap Honest :
        LET v == verifier[i]
            a == v.aggregator[1]
            again == {d \in DealInputs : d.SecShare.I = v.index /\ Some(d) # a.deal}
        IN  /\ \E d \in again : VerifySchnorr(v.dealer, msgDeal(d), d.Signature)
            /\ \E d \in again : ~VerifySchnorr(v.dealer, msgDeal(d), d.Signature)
            /\ \E d \in DealInputs : d.SecShare.I # v.index

\* C15: Dealer.ProcessResponse verifies and stores the Response; an invalid
\* Response gives an error and no Justification, a valid Approval no
\* Justification, and a valid Complaint of index i a Justification with the
\* dealer's session id, Index i and the deal generated for verifier i.
ResponseIsValid(a, r) ==
    /\ r.SessionID = a.sid
    /\ r.Index >= 0 /\ r.Index < SliceLen(a.verifiers)
    /\ VerifySchnorr(a.verifiers[r.Index], msgResponse(r), r.Signature)
    /\ r.Index \notin DOMAIN a.responses

\* the deals NewDealer generated for the Dealer d
GeneratedDeals(d) ==
    {NewDealerOp(d.long, d.secret, d.verifiers, r, d.t).d[1].deals : r \in Seeds}

C15_DealerProcessResponse ==
    \A r \in ResponseInputs :
        dealer # None =>
            LET d == dealer[1]
                a == d.aggregator
                res == DealerProcessResponseOp(d, r)
            IN  IF ~ResponseIsValid(a, r)
                THEN res.err # "nil" /\ res.out = None /\ res.d = d
                ELSE /\ res.err = "nil"
                     /\ res.d.aggregator.responses = (r.Index :> r) @@ a.responses
                     /\ r.Status = StatusApproval => res.out = None
                     /\ r.Status = StatusComplaint =>
                            /\ res.out # None
                            /\ res.out[1].SessionID = d.sessionID
                            /\ res.out[1].Index = r.Index
                            /\ res.out[1].Deal = d.deals[r.Index]
                            /\ r.Index \notin tampered =>
                                   \E deals \in GeneratedDeals(d) :
                                       res.out[1].Deal = deals[r.Index]

\* the Dealer has stored an Approval and has answered a Complaint with the
\* deal it generated, and a valid Complaint, a valid Approval and an invalid
\* Response can still arrive
C15_Witness ==
    /\ dealer # None
    /\ WithStatus(dealer[1].aggregator, StatusApproval) # {}
    /\ \E j \in sentJustifications :
           /\ j.Index \in WithStatus(dealer[1].aggregator, StatusComplaint)
           /\ j.Index \notin tampered
    /\ \E r \in ResponseInputs : ~ResponseIsValid(dealer[1].aggregator, r)
    /\ \E r \in ResponseInputs :
           ResponseIsValid(dealer[1].aggregator, r) /\ r.Status = StatusApproval

\* C16: in a run of an honest dealer and honest verifiers with 2 <= t <= n,
\* every verifier answers its deal with an Approval, and once every verifier
\* has processed its deal and every Response has been delivered to every
\* participant, in whatever order, DealCertified() is true at the dealer and
\* at every verifier and SecretCommit() is secret.B.
HonestRunDone ==
    /\ dealer # None
    /\ \A i \in Indices : verifier[i].aggregator # None
    /\ delivered.dealer = Indices
    /\ \A i \in Indices : delivered.verifier[i] = Indices

HonestCertified ==
    /\ DealCertified(dealer[1].aggregator)
    /\ \A i \in Indices : DealCertified(verifier[i].aggregator[1])
    /\ SecretCommit(dealer[1]) = Some(PointMul(Base, dealer[1].secret))

C16_HonestRunCertifies ==
    /\ \A r \in sentResponses : r.Status = StatusApproval
    /\ HonestRunDone => HonestCertified

\* C17: two valid Responses of distinct indices lead to the same aggregator
\* state in either order, and a Justification whose Complaint is stored leads
\* to the same state whether it is processed before or after a Response of
\* another index.
JustifiableAt(a, j) ==
    /\ j.Index \in DOMAIN a.responses
    /\ a.responses[j.Index].Status = StatusComplaint

C17_OrderIndependent ==
    /\ \A a \in Aggregators : \A r1 \in ResponseInputs : \A r2 \in ResponseInputs :
           (r1.Index # r2.Index /\ ResponseIsValid(a, r1) /\ ResponseIsValid(a, r2)) =>
               LET a12 == verifyResponse(verifyResponse(a, r1).a, r2).a
                   a21 == verifyResponse(verifyResponse(a, r2).a, r1).a
               IN  /\ a12 = a21
                   /\ {r1.Index, r2.Index} \subseteq DOMAIN a12.responses
    /\ \A a \in VerifierAggregators :
           \A j \in JustificationInputs : \A r \in ResponseInputs :
               (JustifiableAt(a, j) /\ r.Index # j.Index) =>
                   verifyResponse(verifyJustification(a, j).a, r).a
                       = verifyJustification(verifyResponse(a, r).a, j).a

\* an aggregator that can take two valid Responses of distinct indices, and a
\* verifier holding a Complaint for which a Justification that verifies and one
\* that does not can each be processed before or after a valid Response of
\* another index
C17_Witness ==
    /\ \E a \in Aggregators : \E r1 \in ResponseInputs : \E r2 \in ResponseInputs :
           r1.Index # r2.Index /\ ResponseIsValid(a, r1) /\ ResponseIsValid(a, r2)
    /\ \E a \in VerifierAggregators : \E r \in ResponseInputs :
           /\ ResponseIsValid(a, r)
           /\ \E j \in JustificationInputs :
                  /\ JustifiableAt(a, j) /\ r.Index # j.Index
                  /\ verifyJustification(a, j).err = "nil"
           /\ \E j \in JustificationInputs :
                  /\ JustifiableAt(a, j) /\ r.Index # j.Index
                  /\ verifyJustification(a, j).err # "nil"

\* C18: Dealer.SecretCommit(), Dealer.Commits() and Verifier.Deal() return
\* nil wherever EnoughApprovals() and DealCertified() do not both hold, and
\* secret.B, the commitments of the secret polynomial and the deal the
\* verifier received wherever both hold.
ApprovedAndCertified(a) ==
    /\ Cardinality(WithStatus(a, StatusApproval)) >= a.t
    /\ ~a.badDealer
    /\ Cardinality(WithStatus(a, StatusComplaint)) < a.t

\* the commitments to the base B of the polynomial NewDealer draws for d
SecretPolyCommits(d) ==
    {[k \in 0 .. (d.t - 1) |->
         PointMul(Base, NewPriPoly(d.t, Some(d.secret), r, 0)[k])] : r \in Seeds}

C18_GettersGated ==
    /\ [](/\ dealer # None =>
                LET d == dealer[1]
                IN  IF ApprovedAndCertified(d.aggregator)
                    THEN /\ SecretCommit(d) = Some(PointMul(Base, d.secret))
                         /\ d.secret \in Secrets
                         /\ Commits(d) # None
                         /\ Commits(d)[1] \in SecretPolyCommits(d)
                    ELSE SecretCommit(d) = None /\ Commits(d) = None
          /\ \A i \in WithAggregator :
                 LET v == verifier[i]
                 IN  IF ApprovedAndCertified(v.aggregator[1])
                     THEN VerifierDeal(v) # None /\ VerifierDeal(v) = v.aggregator[1].deal
                     ELSE VerifierDeal(v) = None
          /\ \A i \in Honest : \A d \in DealInputs :
                 (verifier[i].aggregator = None /\ d.SecShare.I = verifier[i].index)
                     => ProcessDealOp(verifier[i], d).v.aggregator[1].deal = Some(d))
    /\ [][\A i \in WithAggregator :
              verifier'[i].aggregator[1].deal = verifier[i].aggregator[1].deal]_vars

\* the Dealer and a Verifier are certified and hand out their values, while
\* another Verifier, short of approvals, hands out nil
C18_Witness ==
    /\ dealer # None
    /\ SecretCommit(dealer[1]) # None
    /\ Commits(dealer[1]) # None
    /\ \E i \in WithAggregator : VerifierDeal(verifier[i]) # None
    /\ \E i \in WithAggregator : VerifierDeal(verifier[i]) = None

\* C19: PromiseCertified() returns an error if any slot holds a blame proof
\* that passes VerifyBlame, whatever the signatures; otherwise it returns nil
\* iff at least r slots hold a signature that passes VerifySignature.
ValidBlameSlots(ps) ==
    {j \in DOMAIN ps.blames :
        ps.blames[j] # None /\ VerifyBlame(ps.Promise, j, ps.blames[j][1]) = "nil"}

ValidSignatureSlots(ps) ==
    {i \in DOMAIN ps.signatures :
        ps.signatures[i] # None
        /\ VerifySignature(ps.Promise, i, ps.signatures[i][1]) = "nil"}

C19_PromiseCertified ==
    promiseState # None =>
        LET ps == promiseState[1]
        IN  IF ValidBlameSlots(ps) # {}
            THEN PromiseCertifiedOp(ps) # "nil"
            ELSE PromiseCertifiedOp(ps) = "nil"
                     <=> Cardinality(ValidSignatureSlots(ps)) >= ps.Promise.r

\* a PromiseState that holds a valid blame next to r valid signatures, with a
\* signature that does not verify and a blame that does not in other slots
C19_Witness ==
    /\ promiseState # None
    /\ LET ps == promiseState[1]
       IN  /\ ValidBlameSlots(ps) # {}
           /\ Cardinality(ValidSignatureSlots(ps)) >= ps.Promise.r
           /\ \E i \in DOMAIN ps.signatures :
                  ps.signatures[i] # None /\ i \notin ValidSignatureSlots(ps)
           /\ \E j \in DOMAIN ps.blames :
                  ps.blames[j] # None /\ j \notin ValidBlameSlots(ps)

\* C20: once a blame proof that passes VerifyBlame has been added to a
\* PromiseState, PromiseCertified() returns an error in every later state,
\* whatever AddSignature and AddBlameProof calls follow.
C20_ValidBlameTerminal ==
    [][(promiseState # None /\ ValidBlameSlots(promiseState[1]) # {})
           => PromiseCertifiedOp(promiseState'[1]) # "nil"]_vars

\* C21: if PromiseCertified() returns nil, it still returns nil after any
\* AddSignature(i, sig) call (a step that leaves the blame proofs alone).
C21_SignaturesKeepCertified ==
    [][(/\ promiseState # None
        /\ PromiseCertifiedOp(promiseState[1]) = "nil"
        /\ promiseState'[1].blames = promiseState[1].blames)
           => PromiseCertifiedOp(promiseState'[1]) = "nil"]_vars

\* C22: an honestly constructed Promise (every slot passes VerifyShare with its
\* insurer's key pair) admits no blame proof that passes VerifyBlame, the
\* proofs an insurer assembles with another Diffie-Hellman point included.
InsurerKey(p, i) == CHOOSE long \in 1 .. (Q - 1) : Pub(long) = p.insurers[i]

HonestPromise(p) ==
    \A i \in DOMAIN p.insurers : VerifyShare(p, i, InsurerKey(p, i)) = "nil"

C22_BlameSoundness ==
    (promiseState # None /\ HonestPromise(promiseState[1].Promise))
        => ValidBlameSlots(promiseState[1]) = {}

\* C23: for a Promise whose slot i does not decrypt to a share of pubPoly, the
\* proof returned by Blame(i, key pair of insurer i) passes VerifyBlame(i, .),
\* and with that proof added PromiseCertified() fails, however many valid
\* signatures the PromiseState holds.
CorruptedSlots(p) ==
    {i \in DOMAIN p.insurers :
        VerifyShare(p, i, InsurerKey(p, i))
            = "The share failed the public polynomial check."}

C23_BlameCompleteness ==
    promiseState # None =>
        LET ps == promiseState[1]
            p == ps.Promise
        IN  \A i \in CorruptedSlots(p) :
                LET b == Blame(p, i, InsurerKey(p, i))
                IN  /\ b.err = "nil"
                    /\ b.bp # None
                    /\ VerifyBlame(p, i, b.bp[1]) = "nil"
                    /\ ps.blames[i] = b.bp => PromiseCertifiedOp(ps) # "nil"

\* the blame proof of a corrupted slot has been added next to r valid signatures
C23_Witness ==
    /\ promiseState # None
    /\ LET ps == promiseState[1]
           p == ps.Promise
       IN  /\ \E i \in CorruptedSlots(p) :
                  ps.blames[i] = Blame(p, i, InsurerKey(p, i)).bp
           /\ Cardinality(ValidSignatureSlots(ps)) >= p.r
           /\ DOMAIN p.insurers \ CorruptedSlots(p) # {}

\* C24: on a Promise as ConstructPromise made it, VerifyShare(i, key pair of
\* insurer i) returns nil for every slot; on a Promise whose secrets or pubPoly
\* were changed afterwards it returns an error for exactly the slots whose
\* secrets[i] was changed or at which pubPoly has another value, and nil for
\* the others; it returns an error for i outside [0, n) and for a key pair
\* whose public key is not insurers[i].
KeyPairs == 1 .. (Q - 1)

HonestlyConstructed(p) == \E q \in ConstructedPromises : PromiseEqual(q, p)

Revealed(p) ==
    [i \in DOMAIN p.insurers |-> RevealShare(p, i, InsurerKey(p, i)).share]

IsPromisedSecret(p, x) ==
    /\ Pub(x) = p.pubPoly[0]
    /\ p.id # <<>> => p.id = <<Pub(x)>>

C25_SharingCorrect ==
    (promiseState # None /\ HonestlyConstructed(promiseState[1].Promise)) =>
        LET ps == promiseState[1]
            p == ps.Promise
        IN  /\ \A i \in DOMAIN p.insurers :
                   LET rv == RevealShare(p, i, InsurerKey(p, i))
                       mask == diffieHellmanSecret(PointMul(p.insurers[i], PromiserLong))
                   IN  /\ rv.err = "nil"
                       /\ rv.share = Some((p.secrets[i] - mask) % Q)
                       /\ VerifyRevealedShare(p, i, rv.share[1]) = "nil"
            /\ \A S \in SUBSET DOMAIN p.insurers :
                   Cardinality(S) = p.t => IsPromisedSecret(p, Interpolate(Revealed(p), S, S))
            /\ \A i \in SetShares(ps.PriShares) : ps.PriShares[i] = Revealed(p)[i]
            /\ Cardinality(SetShares(ps.PriShares)) >= p.t
                   => /\ PriSharesSecret(ps).err = "nil"
                      /\ IsPromisedSecret(p, PriSharesSecret(ps).secret[1])

\* a client holds a received Promise with 2 <= t < n and the shares of t
\* insurers that are not the first t
C25_Witness ==
    /\ promiseState # None
    /\ LET ps == promiseState[1]
           p == ps.Promise
       IN  /\ HonestlyConstructed(p)
           /\ p.id = <<>>
           /\ p.t >= 2 /\ p.t < p.n
           /\ Cardinality(SetShares(ps.PriShares)) = p.t
           /\ 0 \notin SetShares(ps.PriShares)

\* C26: a signature made by Sign with key pair K, on whatever Promise and for
\* whatever index, passes VerifySignature(j, .) on the Promise held here iff j
\* is an index of it whose insurers[j] is K's public key.
C26_SignatureBindsKeyOnly ==
    promiseState # None =>
        LET p == promiseState[1].Promise
        IN  \A K \in KeyPairs : \A i \in SlotInputs : \A j \in (-1) .. (p.n + 1) :
                VerifySignature(p, j, Sign(i, K)) = "nil"
                    <=> (j \in DOMAIN p.insurers /\ p.insurers[j] = Pub(K))

\* a Promise holds, at slot j, a signature made for another slot i of another
\* Promise, where the signer has slot i
C26_Witness ==
    /\ promiseState # None
    /\ LET ps == promiseState[1]
           p == ps.Promise
       IN  \E j \in DOMAIN p.insurers : \E i \in SlotInputs : \E q \in ConstructedPromises :
               /\ i # j
               /\ ~PromiseEqual(q, p)
               /\ i \in DOMAIN q.insurers
               /\ q.insurers[i] = p.insurers[j]
               /\ q.pubPoly # p.pubPoly
               /\ ps.signatures[j] = Some(Sign(i, InsurerKey(q, i)))
               /\ VerifySignature(q, i, ps.signatures[j][1]) = "nil"

\* C27: every Promise held after ConstructPromise or after an UnmarshalBinary
\* that returned nil has 1 <= t <= r <= n and n insurers and n secrets.
C27_PromiseParameters ==
    promiseState # None =>
        LET p == promiseState[1].Promise
        IN  /\ 1 <= p.t /\ p.t <= p.r /\ p.r <= p.n
            /\ SliceLen(p.insurers) = p.n
            /\ SliceLen(p.secrets) = p.n

\* C28: MinimumT(n) is the ceiling of (n+1)/2 for every n >= 1, that is
\* n/2 + 1 for even n; n ranges over the group sizes up to twice the length of
\* the verifiers list in use.
CeilingOfHalf(m) == (m + 1) \div 2

C28_MinimumTCeiling ==
    \A i \in Indices : \A n \in 1 .. (2 * SliceLen(verifier[i].verifiers)) :
        MinimumT(n) = CeilingOfHalf(n + 1)

\* C29: NewDealer returns a Dealer iff 2 <= t <= len(verifiers), and an error
\* and no Dealer otherwise; a deal whose T is below 2 or above n fails
\* VerifyDeal, and the Verifier that processes it as its deal answers with a
\* Complaint.
OutOfRangeT(verifiers) == {0, 1, SliceLen(verifiers) + 1}

PromiseRoundTrip(p) ==
    LET buf == PromiseMarshalBinary(p)
        u == PromiseUnmarshalBinary(buf)
    IN  /\ u.err = "nil"
        /\ u.p # None
        /\ PromiseEqual(u.p[1], p)
        /\ PromiseEqual(p, u.p[1])
        /\ Len(buf) = 4 + p.t + 2 * p.n
        /\ <<buf[1], buf[2], buf[3], buf[4]>> = <<p.n, p.t, p.r, p.pubKey>>
        /\ \A k \in DOMAIN p.pubPoly : buf[5 + k] = p.pubPoly[k]
        /\ \A i \in DOMAIN p.insurers :
               /\ buf[5 + p.t + i] = p.insurers[i]
               /\ buf[5 + p.t + p.n + i] = p.secrets[i]

SignatureRoundTrip(sig) ==
    LET u == SignatureUnmarshalBinary(SignatureMarshalBinary(sig))
    IN  u.err = "nil" /\ u.sig # None /\ SignatureEqual(u.sig[1], sig)

BlameRoundTrip(bp) ==
    LET u == BlameUnmarshalBinary(BlameMarshalBinary(bp))
    IN  u.err = "nil" /\ u.bp # None /\ BlameEqual(u.bp[1], bp)

C30_RoundTrip ==
    /\ promiseState # None => PromiseRoundTrip(promiseState[1].Promise)
    /\ promiseState # None =>
           \A i \in DOMAIN promiseState[1].signatures :
               promiseState[1].signatures[i] # None
                   => SignatureRoundTrip(promiseState[1].signatures[i][1])
    /\ \A sig \in SignatureMessages : SignatureRoundTrip(sig)
    /\ \A bp \in BlameMessages : BlameRoundTrip(bp)

\* C31: UnmarshalBinary of a Promise, a PromiseSignature and a BlameProof on a
\* buffer that ends before the length its header fields give returns an error
\* as a value and never panics; the buffers are the proper prefixes of the
\* encoding of the Promise held, and of the signatures and blame proofs sent.
Truncations(buf) == {SubSeq(buf, 1, k) : k \in 0 .. (Len(buf) - 1)}

IsPanic(err) == err \in {errIndexOutOfRange, errSliceBounds}

DecodeErrorValue(err) == err # "nil" /\ ~IsPanic(err)

C31_PromiseTruncated ==
    promiseState # None =>
        \A buf \in Truncations(PromiseMarshalBinary(promiseState[1].Promise)) :
            DecodeErrorValue(PromiseUnmarshalBinary(buf).err)

C31_SignatureTruncated ==
    /\ \A m \in SignatureMessages : \A buf \in Truncations(SignatureMarshalBinary(m)) :
           DecodeErrorValue(SignatureUnmarshalBinary(buf).err)
    /\ promiseState # None =>
           \A i \in DOMAIN promiseState[1].signatures :
               promiseState[1].signatures[i] # None =>
                   \A buf \in Truncations(
                                  SignatureMarshalBinary(promiseState[1].signatures[i][1])) :
                       DecodeErrorValue(SignatureUnmarshalBinary(buf).err)

C31_BlameTruncated ==
    /\ \A m \in BlameMessages : \A buf \in Truncations(BlameMarshalBinary(m)) :
           DecodeErrorValue(BlameUnmarshalBinary(buf).err)
    /\ promiseState # None =>
           \A i \in DOMAIN promiseState[1].blames :
               promiseState[1].blames[i] # None =>
                   \A buf \in Truncations(BlameMarshalBinary(promiseState[1].blames[i][1])) :
                       DecodeErrorValue(BlameUnmarshalBinary(buf).err)

C31_TruncatedBufferIsError ==
    /\ C31_PromiseTruncated
    /\ C31_SignatureTruncated
    /\ C31_BlameTruncated

\* C32: in a round, AddPartialSig stores the valid partial signature of an
\* index whose slot is empty and returns nil; for an index that already has a
\* partial signature it returns an error, and for a partial signature that is
\* not the one of its index in this round it returns an error; an error leaves
\* the Schnorr struct as it was.
RoundSeed(s) == CHOOSE seed \in RoundSeeds : Commit(RandomPoly(seed), Base) = s.random[1].Pub

\* ps is sigma = r + h * x for the shares r and x of the peer ps.Index, in the
\* round of s
IsPartialOf(s, ps) ==
    /\ ps.Index \in PeerIndices
    /\ ps.Part = (PriEval(RandomPoly(RoundSeed(s)), ps.Index).V
                  + s.hash[1] * PriEval(LongtermPoly, ps.Index).V) % Q

C32_AddPartialSig ==
    \A j \in WithRound :
        /\ \A k \in PeerIndices :
               schnorrs[j].partials[k] # None =>
                   /\ schnorrs[j].partials[k][1].Index = k
                   /\ IsPartialOf(schnorrs[j], schnorrs[j].partials[k][1])
        /\ \A ps \in PartialSigInputs :
               LET s == schnorrs[j]
                   res == AddPartialSigOp(s, ps)
               IN  IF ps.Index \notin PeerIndices
                   THEN res.err # "nil" /\ res.s = s
                   ELSE IF s.partials[ps.Index] # None
                   THEN res.err # "nil" /\ res.s = s
                   ELSE IF ~IsPartialOf(s, ps)
                   THEN res.err # "nil" /\ res.s = s
                   ELSE /\ res.err = "nil"
                        /\ res.s = [s EXCEPT !.partials[ps.Index] = Some(ps)]
                        /\ AddPartialSigOp(res.s, ps).err # "nil"
                        /\ AddPartialSigOp(res.s, ps).s = res.s

\* every peer is in the same round, and one of them holds the partial
\* signature every peer reveals
C32_Witness ==
    /\ WithRound = PeerIndices
    /\ \E j \in PeerIndices :
           \A k \in PeerIndices :
               schnorrs[j].partials[k] = Some(RevealPartialSig(schnorrs[k]))

\* C33: while the dealer follows the protocol (it hands out the deals NewDealer
\* computed), badDealer is never true at an honest verifier, whatever the other
\* parties send; and a ProcessJustification that sets badDealer was given a
\* Justification or a deal that carries the dealer's signature.
DealerHonest == tampered = {}

DealerSigned(a, j) ==
    \/ VerifySchnorr(a.dealer, msgJustification(j), j.Signature)
    \/ VerifySchnorr(a.dealer, msgDeal(j.Deal), j.Deal.Signature)

C33_HonestDealerNotFramed ==
    /\ DealerHonest => \A i \in Honest : ~BadDealerAt(i)
    /\ \A i \in Honest \cap WithAggregator : \A j \in JustificationInputs :
           LET a == verifier[i].aggregator[1]
               res == ProcessJustificationOp(verifier[i], j)
           IN  (~a.badDealer /\ res.v.aggregator[1].badDealer) => DealerSigned(a, j)

\* C34: a ProcessJustification that returns nil (and turns the complaint of
\* j.Index into Justified) was given the deal of that index: j.Deal.SecShare.I
\* and j.Deal.RndShare.I equal j.Index.
C34_JustificationDealOfIndex ==
    \A i \in Honest \cap WithAggregator : \A j \in JustificationInputs :
        LET res == ProcessJustificationOp(verifier[i], j)
        IN  res.err = "nil" =>
                /\ res.v.aggregator[1].responses[j.Index].Status = statusJustified
                /\ j.Deal.SecShare.I = j.Index
                /\ j.Deal.RndShare.I = j.Index

\* C35: the deal a Verifier's aggregator holds is one that passes the checks
\* of VerifyDeal; a Verifier that answered its deal with a Complaint holds no
\* deal, and ProcessDeal on a later valid deal for its index returns an
\* Approval.
OwnComplaint(i) ==
    LET a == verifier[i].aggregator[1]
    IN  i \in DOMAIN a.responses /\ a.responses[i].Status = StatusComplaint

C35_BindsOnlyVerifiedDeal ==
    \A i \in Honest \cap WithAggregator :
        LET v == verifier[i]
            a == v.aggregator[1]
        IN  /\ a.deal # None => DealIsValid(v, a.deal[1])
            /\ OwnComplaint(i) =>
                   /\ a.deal = None
                   /\ \A d \in DealInputs :
                          (d.SecShare.I = v.index /\ DealIsValid(v, d)) =>
                              LET res == ProcessDealOp(v, d)
                              IN  /\ res.err = "nil"
                                  /\ res.out # None
                                  /\ res.out[1].Status = StatusApproval

\* C36: a deal Verifier.Deal() returns is valid at this verifier (session id,
\* dealer signature, share matching the commitments); a verifier whose own
\* Response is a Complaint, justified or not, does not get from Deal() the deal
\* it complained about.
C36_DealReturnsVerifiedDeal ==
    \A i \in Honest \cap WithAggregator :
        LET v == verifier[i]
            a == v.aggregator[1]
            d == VerifierDeal(v)
        IN  /\ d # None => DealIsValid(v, d[1])
            /\ (i \in DOMAIN a.responses
                    /\ a.responses[i].Status \in {StatusComplaint, statusJustified})
                   => (d = None \/ d # a.deal)

\* C37: every stored response has status Complaint, Approval or Justified; a
\* Response that ProcessResponse accepts, at the Dealer or at a Verifier, has
\* status Complaint or Approval, so that Justified only comes from
\* ProcessJustification; and the Dealer returns a Justification only for a
\* Response whose status is Complaint.
C37_StatusValues ==
    /\ \A a \in Aggregators : \A k \in DOMAIN a.responses :
           a.responses[k].Status \in {StatusComplaint, StatusApproval, statusJustified}
    /\ \A r \in ResponseInputs :
           /\ dealer # None =>
                  LET res == DealerProcessResponseOp(dealer[1], r)
                  IN  /\ res.err = "nil" =>
                             r.Status \in {StatusComplaint, StatusApproval}
                      /\ res.out # None => r.Status = StatusComplaint
           /\ \A i \in Honest \cap WithAggregator :
                  VerifierProcessResponseOp(verifier[i], r).err = "nil" =>
                      r.Status \in {StatusComplaint, StatusApproval}

\* C38: the response stored for an index stays: no step removes it or changes
\* its session id, index or signature, and its status either stays or goes
\* from Complaint to Justified; an Approval and a Justified keep their status.
ResponsesKept(old, new) ==
    \A k \in DOMAIN old :
        /\ k \in DOMAIN new
        /\ new[k].SessionID = old[k].SessionID
        /\ new[k].Index = old[k].Index
        /\ new[k].Signature = old[k].Signature
        /\ \/ new[k].Status = old[k].Status
           \/ old[k].Status = StatusComplaint /\ new[k].Status = statusJustified

C38_FirstResponseFinal ==
    [][/\ dealer # None =>
              /\ dealer' # None
              /\ ResponsesKept(dealer[1].aggregator.responses,
                               dealer'[1].aggregator.responses)
       /\ \A i \in WithAggregator :
              /\ verifier'[i].aggregator # None
              /\ ResponsesKept(verifier[i].aggregator[1].responses,
                               verifier'[i].aggregator[1].responses)]_vars

\* an honest verifier holds its own Approval, a complaint that has been
\* justified (the signature is over the status Complaint), and a second
\* Response of the complainer is at hand
C38_Witness ==
    \E i \in Honest \cap WithAggregator :
        LET a == verifier[i].aggregator[1]
        IN  /\ i \in DOMAIN a.responses
            /\ a.responses[i].Status = StatusApproval
            /\ \E k \in DOMAIN a.responses :
                   /\ a.responses[k].Status = statusJustified
                   /\ a.responses[k].Signature.msg.body[3] = StatusComplaint
                   /\ \E r \in ResponseInputs :
                          r.Index = k /\ r.Status = StatusApproval

\* C39: a complaint for which Dealer.ProcessResponse returned a Justification
\* is not among the complaints the Dealer's DealCertified() counts: its stored
\* status is no longer Complaint, as at a Verifier that processed the
\* Justification.
JustifiedByDealer(k) ==
    \E j \in sentJustifications :
        /\ j.Index = k
        /\ DealIsValid(verifier[0], j.Deal)
        /\ j.Deal.SecShare.I = k

C39_DealerCountsJustified ==
    dealer # None =>
        LET a == dealer[1].aggregator
        IN  /\ \A k \in DOMAIN a.responses :
                   JustifiedByDealer(k) => a.responses[k].Status # StatusComplaint
            /\ CountStatus(a.responses, DOMAIN a.responses, StatusComplaint)
                   <= Cardinality({k \in DOMAIN a.responses : ~JustifiedByDealer(k)})

\* C40: on a Verifier that has no aggregator yet (no deal processed, or only
\* deals refused for a wrong index) no public operation panics: ProcessResponse
\* and ProcessJustification return an error, EnoughApprovals() and
\* DealCertified() return false, Deal() and SessionID() return nil.
ReturnsError(err) == err # "nil" /\ err # errNilAggregator

C40_NoDealNoCrash ==
    \A i \in Honest :
        LET v == verifier[i]
        IN  v.aggregator = None =>
                /\ \A r \in ResponseInputs :
                       ReturnsError(VerifierProcessResponseOp(v, r).err)
                /\ \A j \in JustificationInputs :
                       ReturnsError(ProcessJustificationOp(v, j).err)
                /\ VerifierEnoughApprovals(v) = [val |-> FALSE, err |-> "nil"]
                /\ VerifierDealCertified(v) = [val |-> FALSE, err |-> "nil"]
                /\ VerifierDealOp(v) = [val |-> None, err |-> "nil"]
                /\ VerifierSessionID(v) = [val |-> None, err |-> "nil"]

====
